---- MODULE Spec2Model ----
(***************************************************************************)
(* Model of hc-ops: the reads of src/retrieve.rs (get_agent_chain and      *)
(* merge_into_chain, get_pending_ops, list_discovered_agents, the bulk     *)
(* reads, get_ops_in_slice, time_bounds_for_slice_index), the key file of  *)
(* src/retrieve/crypt.rs, the explorer and the slice-hash comparison of    *)
(* src/hc-ops, is_cell_initialized and connect_app_client of src/ops.rs,   *)
(* and the search for the admin port of src/discover.rs.                   *)
(***************************************************************************)
EXTENDS Integers, Sequences, FiniteSets, TLC

\* ---------------------------------------------------------------------
\* Bounds of the model
\* ---------------------------------------------------------------------

\* number of distinct actions (action hashes 1..NumActions) in the universe
NumActions == 5
\* largest number of DhtOp rows in the shared-ledger store
MaxOps == 2
\* largest number of Action rows in the cache store
MaxCache == 2
\* largest number of Action rows that may be missing from the shared-ledger
\* Action table
MaxMissing == 0
\* largest number of records in a capture file
MaxRecords == 2
\* the slice indexes tried are those from 0 to MaxSliceOffset above each of
\* the values of SliceBases
MaxSliceOffset == 7
\* largest number of times the explorer opens the three stores of a DNA
MaxReopens == 2
\* largest number of lines in a dump file
MaxLines == 2
\* largest number of zome calls made to the cell
MaxZomeCalls == 2
\* largest number of is_cell_initialized calls
MaxChecks == 3
\* largest number of rows of the DhtOp table of a bulk read
MaxRows == 2
\* largest number of rows the query of get_ops_in_slice returns
MaxSliceRows == 2
\* largest number of app interfaces the conductor lists
MaxInterfaces == 2
\* largest length of a chain handed to merge_into_chain
MaxBase == 2
\* largest number of records merged into one chain
MaxMerged == 2

\* ---------------------------------------------------------------------
\* Generic helpers
\* ---------------------------------------------------------------------

\* Option<T>: None is the empty sequence, Some(x) the sequence <<x>>
NULL == <<>>
Some(x) == <<x>>

Range(s) == {s[i] : i \in 1..Len(s)}

\* Vec::insert(pos, x) with a 1-based position
InsertAt(s, pos, x) == SubSeq(s, 1, pos - 1) \o <<x>> \o SubSeq(s, pos, Len(s))

\* the sequence s without its element at position pos
RemoveAt(s, pos) == SubSeq(s, 1, pos - 1) \o SubSeq(s, pos + 1, Len(s))

SetMin(S) == CHOOSE x \in S : \A y \in S : x <= y

\* all subsets of S with at most three / two / one elements
UpTo1(S) == {{}} \cup {{a} : a \in S}
UpTo2(S) == UpTo1(S) \cup {{a, b} : a, b \in S}
UpTo3(S) == UpTo2(S) \cup {{a, b, c} : a, b, c \in S}
UpTo4(S) == UpTo3(S) \cup UNION {{{a, b, c, d} : a, b, c \in S} : d \in S}
UpTo(n, S) == IF n <= 0 THEN {{}}
              ELSE IF n = 1 THEN UpTo1(S)
              ELSE IF n = 2 THEN UpTo2(S)
              ELSE IF n = 3 THEN UpTo3(S)
              ELSE UpTo4(S)

\* all arrangements of the elements of a set, each once (the iteration order
\* of a HashSet, the order of the rows of a query without ORDER BY)
Orderings(S) ==
    LET n == Cardinality(S) IN
    {s \in [1..n -> S] : \A i, j \in 1..n : i # j => s[i] # s[j]}

\* ---------------------------------------------------------------------
\* Stored rows
\* ---------------------------------------------------------------------

\* action hashes; an action's content fixes its sequence number and author
Hashes == 1..NumActions

\* Action.seq / action.seq(): hash 1 has sequence number 0, hashes 2 and 3
\* sequence number 1 (a fork), hashes 4 and 5 sequence number 2, ...
SeqOf(h) == h \div 2

\* Action.author: every fifth action is another agent's
AuthorOf(h) == IF h % 5 = 0 THEN 2 ELSE 1

Agents == {1, 2}

\* ValidationStatus
ValidationStatus == {"Valid", "Rejected", "Abandoned"}

\* rows of the DhtOp table, as far as the chain queries read them; the
\* validation status and the integration time are set together
DhtOpRows ==
    {[action_hash |-> h, validation_status |-> NULL, when_integrated |-> NULL] :
        h \in Hashes}
    \cup
    {[action_hash |-> h, validation_status |-> Some(v), when_integrated |-> Some(1)] :
        h \in Hashes, v \in ValidationStatus}

VARIABLES
    dht_action,     \* shared-ledger store: hashes of the rows of Action
    dht_op,         \* shared-ledger store: rows of DhtOp
    cache_action,   \* cache store: hashes of the rows of Action
    agent_pub_key,  \* the agent whose chain is read
    pc,             \* position in get_agent_chain
    base,           \* the value returned by get_dht_agent_chain
    chain,          \* the chain being built
    cache_chain,    \* the value returned by get_cache_agent_chain
    idx,            \* number of records of cache_chain already merged
    corrupt,        \* the blobs of the stores that do not decode
    entry_rows,     \* the rows of Entry of the two stores, as <<store, action>>
    pending,        \* what get_pending_ops returned
    file_a,         \* compare: the records of the first capture file
    file_b,         \* compare: the records of the second capture file
    run,            \* compare: 1 = (our_file, their_file) is (a, b), 2 = (b, a)
    dpc,            \* position in compare_slice_hash_files
    our_hashes,     \* load_hash_file(our_file)
    their_hashes,   \* load_hash_file(their_file)
    diff_table,     \* the rows pushed so far
    reports,        \* what the finished invocations printed
    slice_index,    \* time partition: the slice index n, a u64
    overflow_checks,\* time partition: the build panics on integer overflow
    tpc,            \* time partition: which call comes next
    bounds_n,       \* time_bounds_for_slice_index(n)
    bounds_n1,      \* time_bounds_for_slice_index(n + 1)
    key_file,       \* explore: the file <root>/databases/db.key
    passphrase,     \* explore: the bytes typed at the passphrase prompt
    epc,            \* explore: position in start_explorer
    load_tag,       \* explore: how load_database_key returned
    key,            \* explore: the Option<Key> of load_database_key
    error,          \* explore: the error start_explorer ended with
    prompts,        \* explore: number of passphrase prompts so far
    derivations,    \* explore: number of argon2id runs so far
    opens,          \* explore: number of open_holochain_database calls
    apps,           \* explore: the apps listed by the conductor
    use_app,        \* explore: the app selected
    use_dna,        \* explore: the DNA selected
    op_outcome,     \* explore: the last selection in the operation menu and how it ended
    dump,           \* dump parser: the file at path
    hpc,            \* dump parser: position in load_hash_file
    hlines,         \* dump parser: the lines of the file
    line_no,        \* dump parser: number of lines already taken
    out,            \* dump parser: the records pushed so far
    load_error,     \* dump parser: the error load_hash_file returned
    conductor,      \* cell: the shape of the state dumps of the conductor
    app_state,      \* cell: how far the app of the cell was installed
    source_chain,   \* cell: the action types of the source chain of the cell
    zome_calls,     \* cell: number of zome calls completed
    init_checks,    \* cell: the is_cell_initialized calls made so far
    op_table,       \* bulk read: the rows of the DhtOp table, in row order
    read_call,      \* bulk read: the function called and its argument
    rpc,            \* bulk read: position in the read
    row_no,         \* bulk read: number of rows the load has taken
    rows_loaded,    \* bulk read: the rows deserialised so far
    read_result,    \* bulk read: what the read returned
    apc,            \* agents: position in list_discovered_agents
    dht_keys,       \* agents: the set collected from list_dht_agent_keys
    cache_keys,     \* agents: the set collected from list_cache_agent_keys
    agents_out,     \* agents: what list_discovered_agents returned
    slice_rows,     \* slice: the rows the query of get_ops_in_slice returns
    spc,            \* slice: position in get_ops_in_slice
    printed,        \* slice: number of rows printed
    slice_result,   \* slice: what get_ops_in_slice returned
    app_interfaces, \* app client: the interfaces list_app_interfaces returns
    cpc,            \* app client: position in connect_app_client
    use_port,       \* app client: the port chosen
    attached,       \* app client: the port of the interface attached
    token_response, \* app client: the token issued
    app_client,     \* app client: what connect_app_client returned
    admin_calls,    \* app client: the requests made so far, in order
    ports,          \* probe: the ports given to discover_admin_addr
    jpc,            \* probe: position in discover_admin_addr and test_admin_port
    port_no,        \* probe: index of the port under test
    addr_no,        \* probe: index of the address under test
    reqh,           \* probe: position of the request half of the join
    recvh,          \* probe: position of the receive-loop half of the join
    req_done,       \* probe: the oneshot channel req_done
    recv_done,      \* probe: the oneshot channel recv_done
    res_ok,         \* probe: output of the request half
    recv_ok,        \* probe: output of the receive-loop half
    req_result,     \* probe: what the ListApps request returned to the request half
    received,       \* probe: what rx.recv returned to the receive loop
    probed,         \* probe: the addresses tested so far and whether each was accepted
    admin_addr      \* probe: what discover_admin_addr returned

diffVars == <<file_a, file_b, run, dpc, our_hashes, their_hashes, diff_table,
              reports>>

timeVars == <<slice_index, overflow_checks, tpc, bounds_n, bounds_n1>>

chainVars == <<dht_action, dht_op, cache_action, agent_pub_key, pc, base,
               chain, cache_chain, idx, corrupt, entry_rows, pending>>

keyVars == <<key_file, passphrase, epc, load_tag, key, error, prompts, derivations,
             opens, apps, use_app, use_dna, op_outcome>>

parseVars == <<dump, hpc, hlines, line_no, out, load_error>>

cellVars == <<conductor, app_state, source_chain, zome_calls, init_checks>>

dumpVars == <<op_table, read_call, rpc, row_no, rows_loaded, read_result>>

agentVars == <<apc, dht_keys, cache_keys, agents_out>>

sliceVars == <<slice_rows, spc, printed, slice_result>>

appVars == <<app_interfaces, cpc, use_port, attached, token_response, app_client, admin_calls>>

probeVars == <<ports, jpc, port_no, addr_no, reqh, recvh, req_done, recv_done,
               res_ok, recv_ok, req_result, received, probed, admin_addr>>

\* what the operations of one part of the program leave alone
exceptDiff == <<timeVars, chainVars, keyVars, parseVars, cellVars, dumpVars,
    agentVars, sliceVars, appVars, probeVars>>
exceptTime == <<diffVars, chainVars, keyVars, parseVars, cellVars, dumpVars,
    agentVars, sliceVars, appVars, probeVars>>
exceptChain == <<diffVars, timeVars, keyVars, parseVars, cellVars, dumpVars,
    agentVars, sliceVars, appVars, probeVars>>
exceptKey == <<diffVars, timeVars, chainVars, parseVars, cellVars, dumpVars,
    agentVars, sliceVars, appVars, probeVars>>
exceptParse == <<diffVars, timeVars, chainVars, keyVars, cellVars, dumpVars,
    agentVars, sliceVars, appVars, probeVars>>
exceptCell == <<diffVars, timeVars, chainVars, keyVars, parseVars, dumpVars,
    agentVars, sliceVars, appVars, probeVars>>
exceptDump == <<diffVars, timeVars, chainVars, keyVars, parseVars, cellVars,
    agentVars, sliceVars, appVars, probeVars>>
exceptAgents == <<diffVars, timeVars, chainVars, keyVars, parseVars, cellVars,
    dumpVars, sliceVars, appVars, probeVars>>
exceptSlice == <<diffVars, timeVars, chainVars, keyVars, parseVars, cellVars,
    dumpVars, agentVars, appVars, probeVars>>
exceptApp == <<diffVars, timeVars, chainVars, keyVars, parseVars, cellVars,
    dumpVars, agentVars, sliceVars, probeVars>>
exceptProbe == <<diffVars, timeVars, chainVars, keyVars, parseVars, cellVars,
    dumpVars, agentVars, sliceVars, appVars>>

\* ---------------------------------------------------------------------
\* Chain reconstruction
\* ---------------------------------------------------------------------

ChainRecord(h, v) == [hash |-> h, seq |-> SeqOf(h), validation_status |-> v]

\* the distinct rows selected by get_dht_agent_chain
DhtChainRows(actions, ops, agent) ==
    {ChainRecord(o.action_hash, o.validation_status[1]) :
        o \in {r \in ops : /\ r.action_hash \in actions
                           /\ AuthorOf(r.action_hash) = agent
                           /\ r.when_integrated # NULL}}

\* get_cache_agent_chain without its filter on the author
CacheChainRows_NoAuthorFilter(actions, agent) ==
    {ChainRecord(h, "Valid") : h \in actions}

\* the distinct rows selected by get_cache_agent_chain
CacheChainRows(actions, agent) ==
    {ChainRecord(h, "Valid") : h \in {a \in actions : AuthorOf(a) = agent}}

\* the query without its order_by clause: the rows in any order
OrderBySeq_Unordered(rows) ==
    LET n == Cardinality(rows) IN
    {s \in [1..n -> rows] : \A i, j \in 1..n : i # j => s[i] # s[j]}

\* ORDER BY seq: every arrangement of the rows, each once, by sequence number
\* (the order of rows with equal sequence numbers is the engine's choice)
OrderBySeq(rows) ==
    LET n == Cardinality(rows) IN
    {s \in [1..n -> rows] :
        /\ \A i, j \in 1..n : i # j => s[i] # s[j]
        /\ \A i, j \in 1..n : i < j => s[i].seq <= s[j].seq}

\* merge_into_chain that never searches for a position
merge_into_chain_Push(c, record) ==
    IF \E i \in 1..Len(c) : c[i].hash = record.hash
    THEN c
    ELSE Append(c, record)

\* merge_into_chain without the test for a record already in the chain
merge_into_chain_NoSkip(c, record) ==
    LET greater == {i \in 1..Len(c) : c[i].seq > record.seq} IN
    IF greater # {}
    THEN InsertAt(c, SetMin(greater), record)
    ELSE Append(c, record)

\* merge_into_chain that puts the record in the place of the record that has
\* its hash
merge_into_chain_Replace(c, record) ==
    IF \E i \in 1..Len(c) : c[i].hash = record.hash
    THEN [i \in 1..Len(c) |-> IF c[i].hash = record.hash THEN record ELSE c[i]]
    ELSE LET greater == {i \in 1..Len(c) : c[i].seq > record.seq} IN
         IF greater # {}
         THEN InsertAt(c, SetMin(greater), record)
         ELSE Append(c, record)

\* merge_into_chain that inserts before the first record whose sequence
\* number is not smaller, or at the front when there is none
merge_into_chain_Front(c, record) ==
    IF \E i \in 1..Len(c) : c[i].hash = record.hash
    THEN c
    ELSE LET greater == {i \in 1..Len(c) : c[i].seq >= record.seq} IN
         IF greater # {}
         THEN InsertAt(c, SetMin(greater), record)
         ELSE <<record>> \o c

\* merge_into_chain that compares the sequence numbers with >=
merge_into_chain_Ge(c, record) ==
    IF \E i \in 1..Len(c) : c[i].hash = record.hash
    THEN c
    ELSE LET greater == {i \in 1..Len(c) : c[i].seq >= record.seq} IN
         IF greater # {}
         THEN InsertAt(c, SetMin(greater), record)
         ELSE Append(c, record)

\* merge_into_chain
merge_into_chain(c, record) ==
    IF \E i \in 1..Len(c) : c[i].hash = record.hash
    THEN c
    ELSE LET greater == {i \in 1..Len(c) : c[i].seq > record.seq} IN
         IF greater # {}
         THEN InsertAt(c, SetMin(greater), record)
         ELSE Append(c, record)

\* Action.entry_hash: the even actions of the model have an entry
HasEntry(h) == h % 2 = 0

\* the rows of the Entry tables when every entry of an action is stored
EntryRows == {"dht", "cache"} \X {h \in Hashes : HasEntry(h)}

Ok(v) == [tag |-> "Ok", value |-> v]
Err(e) == [tag |-> "Err", value |-> <<>>, error |-> e]

\* holochain_serialized_bytes::decode of the blob of a row: the blobs in corrupt
\* fail to decode, every other blob decodes to the content its hash stands for
decode(store, table, h) ==
    IF <<store, table, h>> \in corrupt
    THEN Err(<<"SerializedBytesError", store, table, h>>)
    ELSE Ok(h)

\* maybe_entry.map(|e| decode(&e)).transpose(): the blob of the Entry row that
\* the left join finds for the entry_hash of the action, if there is one
decode_entry(store, h) ==
    IF HasEntry(h) /\ <<store, h>> \in entry_rows
    THEN LET entry == decode(store, "Entry", h) IN
         IF entry.tag = "Ok" THEN Ok(Some(entry.value)) ELSE entry
    ELSE Ok(NULL)

\* TryFrom<(DbAction, ValidationStatus, Option<Vec<u8>>)> for ChainRecord
TryFromChainRecord(store, row) ==
    LET action == decode(store, "Action", row.hash) IN
    IF action.tag = "Err" THEN action
    ELSE LET entry == decode_entry(store, row.hash) IN
         IF entry.tag = "Err" THEN entry
         ELSE Ok(row)

\* TryFrom<(DbDhtOp, Vec<u8>, Option<Vec<u8>>)> for Record
TryFromRecord(row) ==
    LET action == decode("dht", "Action", row.action_hash) IN
    IF action.tag = "Err" THEN action
    ELSE LET entry == decode_entry("dht", row.action_hash) IN
         IF entry.tag = "Err" THEN entry
         ELSE Ok([dht_op |-> row, action |-> action.value, entry |-> entry.value])

\* a collect that keeps the rows converted and leaves the others out
RECURSIVE CollectResults_SkipErrors(_)
CollectResults_SkipErrors(results) ==
    IF results = <<>> THEN Ok(<<>>)
    ELSE LET rest == CollectResults_SkipErrors(Tail(results)) IN
         IF Head(results).tag = "Err" THEN rest
         ELSE Ok(<<Head(results).value>> \o rest.value)

\* .collect::<HcOpsResult<Vec<_>>>(): the first error, or all the values
RECURSIVE CollectResults(_)
CollectResults(results) ==
    IF results = <<>> THEN Ok(<<>>)
    ELSE IF Head(results).tag = "Err" THEN Head(results)
    ELSE LET rest == CollectResults(Tail(results)) IN
         IF rest.tag = "Err" THEN rest
         ELSE Ok(<<Head(results).value>> \o rest.value)

\* get_pending_ops without its filter on when_integrated
PendingRows_AnyTimestamp(actions, ops) ==
    {r \in ops : r.action_hash \in actions}

\* the rows selected by get_pending_ops
PendingRows(actions, ops) ==
    {r \in ops : r.action_hash \in actions /\ r.when_integrated = NULL}

\* get_pending_ops has not returned
NoPending == [tag |-> "None", value |-> <<>>]

ChainInit ==
    /\ dht_op \in UpTo(MaxOps, DhtOpRows)
    /\ dht_action \in {Hashes \ m : m \in UpTo(MaxMissing, Hashes)}
    /\ cache_action \in UpTo(MaxCache, Hashes)
    /\ agent_pub_key \in Agents
    /\ pc = "dht"
    /\ base = <<>>
    /\ chain = <<>>
    /\ cache_chain = <<>>
    /\ idx = 0
    /\ corrupt = {}
    /\ entry_rows = EntryRows
    /\ pending = NoPending

\* get_agent_chain: let mut chain = get_dht_agent_chain(..)?
GetDhtAgentChain ==
    /\ pc = "dht"
    /\ \E loaded \in OrderBySeq(DhtChainRows(dht_action, dht_op, agent_pub_key)) :
          LET converted ==
                  CollectResults([i \in 1..Len(loaded) |->
                                     TryFromChainRecord("dht", loaded[i])])
          IN IF converted.tag = "Ok"
             THEN /\ base' = converted.value
                  /\ chain' = converted.value
                  /\ pc' = "cache"
             ELSE /\ base' = <<>>
                  /\ chain' = <<>>
                  /\ pc' = "error"
    /\ UNCHANGED <<dht_action, dht_op, cache_action, agent_pub_key, cache_chain, idx,
                   corrupt, entry_rows, pending>>
    /\ UNCHANGED exceptChain

\* get_agent_chain: let cache_chain = get_cache_agent_chain(..)?
GetCacheAgentChain ==
    /\ pc = "cache"
    /\ \E loaded \in OrderBySeq(CacheChainRows(cache_action, agent_pub_key)) :
          LET converted ==
                  CollectResults([i \in 1..Len(loaded) |->
                                     TryFromChainRecord("cache", loaded[i])])
          IN IF converted.tag = "Ok"
             THEN /\ cache_chain' = converted.value
                  /\ chain' = chain
                  /\ pc' = "merge"
             ELSE /\ cache_chain' = <<>>
                  /\ chain' = <<>>
                  /\ pc' = "error"
    /\ UNCHANGED <<dht_action, dht_op, cache_action, agent_pub_key, base, idx,
                   corrupt, entry_rows, pending>>
    /\ UNCHANGED exceptChain

\* get_agent_chain: one iteration of `for record in cache_chain`
MergeNext ==
    /\ pc = "merge"
    /\ idx < Len(cache_chain)
    /\ chain' = merge_into_chain(chain, cache_chain[idx + 1])
    /\ idx' = idx + 1
    /\ UNCHANGED <<dht_action, dht_op, cache_action, agent_pub_key, pc, base, cache_chain,
                   corrupt, entry_rows, pending>>
    /\ UNCHANGED exceptChain

\* get_agent_chain: Ok(chain)
ReturnChain ==
    /\ pc = "merge"
    /\ idx = Len(cache_chain)
    /\ pc' = "done"
    /\ UNCHANGED <<dht_action, dht_op, cache_action, agent_pub_key, base, chain,
                   cache_chain, idx, corrupt, entry_rows, pending>>
    /\ UNCHANGED exceptChain

\* get_pending_ops
GetPendingOps ==
    /\ pc = "pending"
    /\ \E loaded \in Orderings(PendingRows(dht_action, dht_op)) :
          pending' = CollectResults([i \in 1..Len(loaded) |-> TryFromRecord(loaded[i])])
    /\ pc' = "dht"
    /\ UNCHANGED <<dht_action, dht_op, cache_action, agent_pub_key, base, chain,
                   cache_chain, idx, corrupt, entry_rows>>
    /\ UNCHANGED exceptChain

ChainNext == GetDhtAgentChain \/ GetCacheAgentChain \/ MergeNext \/ ReturnChain

\* the rows of DhtOp of the stores whose blobs may be damaged: an operation is
\* awaiting integration or integrated as valid
DecodeOpRows == {r \in DhtOpRows : r.validation_status \in {NULL, Some("Valid")}}

\* the blobs of the two stores
Blobs == {"dht", "cache"} \X {"Action", "Entry"} \X Hashes

\* the stores as they should be, or with one defect: a blob that does not
\* decode, an Entry row that is not stored, or an Action row of the
\* shared-ledger store that is not stored
StoreDefects ==
    {[corrupt |-> c, entry_rows |-> EntryRows, dht_action |-> Hashes] : c \in UpTo1(Blobs)}
    \cup {[corrupt |-> {}, entry_rows |-> EntryRows \ {e}, dht_action |-> Hashes] :
              e \in EntryRows}
    \cup {[corrupt |-> {}, entry_rows |-> EntryRows, dht_action |-> Hashes \ {h}] :
              h \in Hashes}

\* get_pending_ops, then get_agent_chain, on stores with at most one defect
DecodeInit ==
    /\ dht_op \in UpTo(MaxOps, DecodeOpRows)
    /\ \E defect \in StoreDefects :
          /\ corrupt = defect.corrupt
          /\ entry_rows = defect.entry_rows
          /\ dht_action = defect.dht_action
    /\ cache_action \in UpTo(MaxCache, Hashes)
    /\ agent_pub_key = 1
    /\ pc = "pending"
    /\ base = <<>>
    /\ chain = <<>>
    /\ cache_chain = <<>>
    /\ idx = 0
    /\ pending = NoPending

DecodeNext == GetPendingOps \/ ChainNext


\* ---------------------------------------------------------------------
\* Slice-hash comparison (compare_slice_hash_files)
\* ---------------------------------------------------------------------

\* sequences over S of length at most n
RECURSIVE SeqsUpTo(_, _)
SeqsUpTo(n, S) ==
    IF n = 0 THEN {<<>>}
    ELSE LET shorter == SeqsUpTo(n - 1, S) IN
         shorter \cup {Append(s, x) : s \in {t \in shorter : Len(t) = n - 1}, x \in S}

DigitChars == <<"0", "1", "2", "3", "4", "5", "6", "7", "8", "9">>

\* Display of an unsigned integer: its decimal digits
RECURSIVE Decimal(_)
Decimal(n) ==
    IF n < 10 THEN <<DigitChars[n + 1]>>
    ELSE Decimal(n \div 10) \o <<DigitChars[(n % 10) + 1]>>

\* `x as u32` / `x as u64` of a stored i32 / i64: the value itself when it is
\* not negative (the captures of the model hold no negative value)
AsUnsigned(x) == x

\* the key without the separators between its three numbers
DiffKey_NoSeparator(oh) ==
    Decimal(AsUnsigned(oh.arc_start)) \o Decimal(AsUnsigned(oh.arc_end))
        \o Decimal(AsUnsigned(oh.slice_index))

\* format!("{}-{}-{}", arc_start as u32, arc_end as u32, slice_index as u64)
DiffKey(oh) ==
    Decimal(AsUnsigned(oh.arc_start)) \o <<"-">> \o Decimal(AsUnsigned(oh.arc_end))
        \o <<"-">> \o Decimal(AsUnsigned(oh.slice_index))

\* format!("{:?}", (arc_start as u32)..(arc_end as u32))
DhtArc(oh) ==
    Decimal(AsUnsigned(oh.arc_start)) \o <<".", ".">> \o Decimal(AsUnsigned(oh.arc_end))

Base64Alphabet ==
    <<"A", "B", "C", "D", "E", "F", "G", "H", "I", "J", "K", "L", "M", "N", "O", "P",
      "Q", "R", "S", "T", "U", "V", "W", "X", "Y", "Z", "a", "b", "c", "d", "e", "f",
      "g", "h", "i", "j", "k", "l", "m", "n", "o", "p", "q", "r", "s", "t", "u", "v",
      "w", "x", "y", "z", "0", "1", "2", "3", "4", "5", "6", "7", "8", "9", "+", "/">>

\* BASE64_STANDARD.encode
RECURSIVE Base64Encode(_)
Base64Encode(bytes) ==
    IF Len(bytes) = 0 THEN <<>>
    ELSE IF Len(bytes) = 1 THEN
        <<Base64Alphabet[(bytes[1] \div 4) + 1],
          Base64Alphabet[((bytes[1] % 4) * 16) + 1], "=", "=">>
    ELSE IF Len(bytes) = 2 THEN
        <<Base64Alphabet[(bytes[1] \div 4) + 1],
          Base64Alphabet[((bytes[1] % 4) * 16) + (bytes[2] \div 16) + 1],
          Base64Alphabet[((bytes[2] % 16) * 4) + 1], "=">>
    ELSE
        <<Base64Alphabet[(bytes[1] \div 4) + 1],
          Base64Alphabet[((bytes[1] % 4) * 16) + (bytes[2] \div 16) + 1],
          Base64Alphabet[((bytes[2] % 16) * 4) + (bytes[3] \div 64) + 1],
          Base64Alphabet[(bytes[3] % 64) + 1]>>
        \o Base64Encode(SubSeq(bytes, 4, Len(bytes)))

\* the (arc_start, arc_end, slice_index) of the captures of the model
CaptureKeys == {<<1, 11, 1>>, <<11, 1, 1>>, <<1, 1, 11>>}

\* the digests of the captures of the model
CaptureDigests == {<<1>>, <<1, 0>>}

\* SliceHash
SliceHashes ==
    {[arc_start |-> k[1], arc_end |-> k[2], slice_index |-> k[3], hash |-> h] :
        k \in CaptureKeys, h \in CaptureDigests}

\* .map(|oh| (format!(..), oh)).collect::<HashMap<_, _>>(): a later record
\* replaces an earlier one that has the same key
Diffable(hashes) ==
    [k \in {DiffKey(hashes[i]) : i \in 1..Len(hashes)} |->
        LET last == CHOOSE i \in 1..Len(hashes) :
                        /\ DiffKey(hashes[i]) = k
                        /\ \A j \in (i + 1)..Len(hashes) : DiffKey(hashes[j]) # k
        IN hashes[last]]

\* our_diffable / their_diffable
OurDiffable == Diffable(our_hashes)
TheirDiffable == Diffable(their_hashes)

\* our_keys / their_keys
OurKeys == DOMAIN OurDiffable
TheirKeys == DOMAIN TheirDiffable

\* the rows of SliceHashDiffTable
OnlyOurRow(oh) ==
    [dht_arc |-> DhtArc(oh), slice_index |-> AsUnsigned(oh.slice_index),
     diff |-> <<"Only in our file">>]

OnlyTheirRow(oh) ==
    [dht_arc |-> DhtArc(oh), slice_index |-> AsUnsigned(oh.slice_index),
     diff |-> <<"Only in their file">>]

DifferentRow(oh1, oh2) ==
    [dht_arc |-> DhtArc(oh1), slice_index |-> AsUnsigned(oh1.slice_index),
     diff |-> <<"Different hashes: our hash = ", Base64Encode(oh1.hash),
                ", their hash = ", Base64Encode(oh2.hash)>>]

\* our_keys.difference(their_keys)
OurExtra == OurKeys \ TheirKeys

\* their_keys.difference(&our_keys) taken the other way round
TheirExtra_Swapped == OurKeys \ TheirKeys

\* their_keys.difference(&our_keys)
TheirExtra == TheirKeys \ OurKeys

\* the rows pushed by the loop over common_keys, in the order given, with the
\* two digests exchanged
RECURSIVE CommonRows_Exchanged(_)
CommonRows_Exchanged(keys) ==
    IF keys = <<>> THEN <<>>
    ELSE LET oh1 == OurDiffable[Head(keys)]
             oh2 == TheirDiffable[Head(keys)]
         IN (IF oh1.hash # oh2.hash THEN <<DifferentRow(oh2, oh1)>> ELSE <<>>)
            \o CommonRows_Exchanged(Tail(keys))

\* the rows pushed by the loop over common_keys, in the order given
RECURSIVE CommonRows(_)
CommonRows(keys) ==
    IF keys = <<>> THEN <<>>
    ELSE LET oh1 == OurDiffable[Head(keys)]
             oh2 == TheirDiffable[Head(keys)]
         IN (IF oh1.hash # oh2.hash THEN <<DifferentRow(oh1, oh2)>> ELSE <<>>)
            \o CommonRows(Tail(keys))

DiffInit ==
    /\ file_a \in SeqsUpTo(MaxRecords, SliceHashes)
    /\ file_b \in SeqsUpTo(MaxRecords, SliceHashes)
    /\ run = 1
    /\ dpc = "load"
    /\ our_hashes = <<>>
    /\ their_hashes = <<>>
    /\ diff_table = <<>>
    /\ reports = <<>>

\* let our_hashes = load_hash_file(our_file)?; let their_hashes = ..
LoadHashFiles ==
    /\ dpc = "load"
    /\ our_hashes' = IF run = 1 THEN file_a ELSE file_b
    /\ their_hashes' = IF run = 1 THEN file_b ELSE file_a
    /\ diff_table' = <<>>
    /\ dpc' = "our_extra"
    /\ UNCHANGED <<file_a, file_b, run, reports>>
    /\ UNCHANGED exceptDiff

\* for key in our_extra { .. }; a key that our_diffable does not hold pushes
\* nothing
PushOurExtra ==
    /\ dpc = "our_extra"
    /\ \E keys \in Orderings(OurExtra \cap OurKeys) :
          diff_table' = diff_table \o
              [i \in 1..Len(keys) |-> OnlyOurRow(OurDiffable[keys[i]])]
    /\ dpc' = "their_extra"
    /\ UNCHANGED <<file_a, file_b, run, our_hashes, their_hashes, reports>>
    /\ UNCHANGED exceptDiff

\* for key in their_extra { .. }; a key that their_diffable does not hold
\* pushes nothing
PushTheirExtra ==
    /\ dpc = "their_extra"
    /\ \E keys \in Orderings(TheirExtra \cap TheirKeys) :
          diff_table' = diff_table \o
              [i \in 1..Len(keys) |-> OnlyTheirRow(TheirDiffable[keys[i]])]
    /\ dpc' = "common"
    /\ UNCHANGED <<file_a, file_b, run, our_hashes, their_hashes, reports>>
    /\ UNCHANGED exceptDiff

\* for key in common_keys { .. }
PushCommon ==
    /\ dpc = "common"
    /\ \E keys \in Orderings(OurKeys \cap TheirKeys) :
          diff_table' = diff_table \o CommonRows(keys)
    /\ dpc' = "report"
    /\ UNCHANGED <<file_a, file_b, run, our_hashes, their_hashes, reports>>
    /\ UNCHANGED exceptDiff

\* if diff_table.is_empty() { println!(..) } else { diff_table.render(..) }
Report ==
    /\ dpc = "report"
    /\ reports' = Append(reports,
          [our |-> our_hashes, their |-> their_hashes, table |-> diff_table,
           stdout |-> IF diff_table = <<>>
                      THEN "No differences found between the two files."
                      ELSE "table"])
    /\ dpc' = "done"
    /\ UNCHANGED <<file_a, file_b, run, our_hashes, their_hashes, diff_table>>
    /\ UNCHANGED exceptDiff

\* the command is run again with the two files exchanged
RunExchanged ==
    /\ dpc = "done"
    /\ run = 1
    /\ run' = 2
    /\ dpc' = "load"
    /\ UNCHANGED <<file_a, file_b, our_hashes, their_hashes, diff_table, reports>>
    /\ UNCHANGED exceptDiff

DiffNext ==
    \/ LoadHashFiles
    \/ PushOurExtra
    \/ PushTheirExtra
    \/ PushCommon
    \/ Report
    \/ RunExchanged


\* ---------------------------------------------------------------------
\* Time partition (time_bounds_for_slice_index)
\* ---------------------------------------------------------------------

\* Unsigned integers wider than the integers of the model checker are
\* sequences of bytes, least significant first: a u64 has 8 bytes, a u128 has
\* 16, and an i64 is the 8 bytes of its two's complement.

\* the bytes of a small number
RECURSIVE ToBytes(_, _)
ToBytes(n, len) ==
    IF len = 0 THEN <<>> ELSE <<n % 256>> \o ToBytes(n \div 256, len - 1)

\* zero extension to len bytes
Extend(a, len) == a \o [i \in 1..(len - Len(a)) |-> 0]

\* a * k + carry for a small k, within the width of a
RECURSIVE MulBytes(_, _, _)
MulBytes(a, k, carry) ==
    IF a = <<>> THEN <<>>
    ELSE LET t == (Head(a) * k) + carry IN
         <<t % 256>> \o MulBytes(Tail(a), k, t \div 256)

\* a + b + carry within the width of a
RECURSIVE AddBytes(_, _, _)
AddBytes(a, b, carry) ==
    IF a = <<>> THEN <<>>
    ELSE LET t == Head(a) + Head(b) + carry IN
         <<t % 256>> \o AddBytes(Tail(a), Tail(b), t \div 256)

\* the value does not fit in 8 bytes
ExceedsU64(a) == \E i \in 9..Len(a) : a[i] # 0

\* truncation to 64 bits (wrapping arithmetic, `as i64`)
Low64(a) == SubSeq(a, 1, 8)

\* sign of an i64
IsNegative(a) == a[8] >= 128

\* kitsune2_dht::UNIT_TIME, in seconds (15 minutes)
UNIT_TIME == 15 * 60

\* kitsune2_api::UNIX_TIMESTAMP, in microseconds
UNIX_TIMESTAMP == ToBytes(0, 8)

\* Duration::as_micros of a number of seconds, a u128
AsMicros(secs) == MulBytes(Extend(secs, 16), 1000000, 0)

\* full_slice_duration.as_secs() with UNIT_TIME in place of the full slice
FullSliceSecs_UnitTime == UNIT_TIME

\* full_slice_duration.as_secs() = (1u64 << 9) * UNIT_TIME.as_secs()
FullSliceSecs == (2^9) * UNIT_TIME

\* Timestamp + Duration: self.0 + rhs.as_micros() as i64
TimestampAdd(ts, secs) == AddBytes(ts, Low64(AsMicros(secs)), 0)

\* the i64 addition of Timestamp + Duration overflows
TimestampAddOverflows(ts, secs) ==
    LET rhs == Low64(AsMicros(secs)) IN
    /\ IsNegative(ts) = IsNegative(rhs)
    /\ IsNegative(TimestampAdd(ts, secs)) # IsNegative(ts)

\* time_bounds_for_slice_index: an integer overflow panics in a build with
\* overflow checks and wraps in a build without
time_bounds_for_slice_index(n, checks) ==
    LET product == MulBytes(Extend(n, 16), FullSliceSecs, 0)
        offset == Low64(product)
        start == TimestampAdd(UNIX_TIMESTAMP, offset)
        end == TimestampAdd(start, ToBytes(FullSliceSecs, 8))
        overflow == \/ ExceedsU64(product)
                    \/ TimestampAddOverflows(UNIX_TIMESTAMP, offset)
                    \/ TimestampAddOverflows(start, ToBytes(FullSliceSecs, 8))
    IN [panic |-> checks /\ overflow, start |-> start, end |-> end]

\* slice indexes around which the model looks: the first slices, the last
\* slices whose bounds fit in an i64 of microseconds, the last slices whose
\* offset in seconds fits in a u64, and the last u64 values
SliceBases ==
    {ToBytes(0, 8),
     ToBytes(20015993, 8),
     AddBytes(MulBytes(ToBytes(40031996, 8), 1000000, 0), ToBytes(687733, 8), 0),
     <<240, 255, 255, 255, 255, 255, 255, 255>>}

NoBounds == [panic |-> FALSE, start |-> <<>>, end |-> <<>>]

TimeInit ==
    /\ \E b \in SliceBases, k \in 0..MaxSliceOffset :
          slice_index = AddBytes(b, ToBytes(k, 8), 0)
    /\ overflow_checks \in BOOLEAN
    /\ tpc = "slice_n"
    /\ bounds_n = NoBounds
    /\ bounds_n1 = NoBounds

\* time_bounds_for_slice_index(n)
BoundsOfSlice ==
    /\ tpc = "slice_n"
    /\ bounds_n' = time_bounds_for_slice_index(slice_index, overflow_checks)
    /\ tpc' = IF bounds_n'.panic THEN "panicked" ELSE "slice_n1"
    /\ UNCHANGED <<slice_index, overflow_checks, bounds_n1>>
    /\ UNCHANGED exceptTime

\* time_bounds_for_slice_index(n + 1)
BoundsOfNextSlice ==
    /\ tpc = "slice_n1"
    /\ bounds_n1' = time_bounds_for_slice_index(
                        AddBytes(slice_index, ToBytes(1, 8), 0), overflow_checks)
    /\ tpc' = IF bounds_n1'.panic THEN "panicked" ELSE "done"
    /\ UNCHANGED <<slice_index, overflow_checks, bounds_n>>
    /\ UNCHANGED exceptTime

TimeNext == BoundsOfSlice \/ BoundsOfNextSlice

\* ---------------------------------------------------------------------
\* The database key (src/retrieve/crypt.rs) and the explorer
\* (src/hc-ops/explore.rs)
\* ---------------------------------------------------------------------

\* sizes, in bytes, of the fields of a key blob
XSALSA_NONCEBYTES == 24
XSALSA_MACBYTES == 16
XSALSA_KEYBYTES == 32
ARGON2_ID_SALTBYTES == 16

\* a key blob is nonce, then cipher (tag and encrypted key), then salt
KeyBlobLen ==
    XSALSA_NONCEBYTES + XSALSA_MACBYTES + XSALSA_KEYBYTES + ARGON2_ID_SALTBYTES

\* the alphabet of BASE64_URL_SAFE_NO_PAD
Base64UrlAlphabet ==
    <<"A", "B", "C", "D", "E", "F", "G", "H", "I", "J", "K", "L", "M", "N", "O", "P",
      "Q", "R", "S", "T", "U", "V", "W", "X", "Y", "Z", "a", "b", "c", "d", "e", "f",
      "g", "h", "i", "j", "k", "l", "m", "n", "o", "p", "q", "r", "s", "t", "u", "v",
      "w", "x", "y", "z", "0", "1", "2", "3", "4", "5", "6", "7", "8", "9", "-", "_">>

\* the text BASE64_URL_SAFE_NO_PAD.decode turns into bytes: character k
\* (from 0) holds the bits 6k .. 6k+5 of the byte string
Base64UrlEncode(bytes) ==
    LET n == Len(bytes)
        byte(p) == IF p < n THEN bytes[p + 1] ELSE 0
        sextet(k) ==
            LET p == (6 * k) \div 8
                off == (6 * k) % 8
            IN  IF off = 0 THEN byte(p) \div 4
                ELSE IF off = 6 THEN ((byte(p) % 4) * 16) + (byte(p + 1) \div 16)
                ELSE IF off = 4 THEN ((byte(p) % 16) * 4) + (byte(p + 1) \div 64)
                ELSE byte(p) % 64
    IN  [k \in 1..(((8 * n) + 5) \div 6) |-> Base64UrlAlphabet[sextet(k - 1) + 1]]

\* the bytes of a text of characters of the alphabet, character k (from 0)
\* holding the bits 6k .. 6k+5; None when the length is impossible or bits
\* are set after the last whole byte
Base64DecodeSextets(alphabet, text) ==
    LET m == Len(text)
        n == (6 * m) \div 8
        v(k) == (CHOOSE i \in 1..Len(alphabet) : alphabet[i] = text[k + 1]) - 1
        byte(j) ==
            LET q == (8 * j) \div 6
                r == (8 * j) % 6
            IN  IF r = 0 THEN (v(q) * 4) + (v(q + 1) \div 16)
                ELSE IF r = 2 THEN ((v(q) % 16) * 16) + (v(q + 1) \div 4)
                ELSE ((v(q) % 4) * 64) + v(q + 1)
    IN  IF \E k \in 1..m : text[k] \notin Range(alphabet) THEN NULL
        ELSE IF m % 4 = 1 THEN NULL
        ELSE IF m % 4 = 2 /\ v(m - 1) % 16 # 0 THEN NULL
        ELSE IF m % 4 = 3 /\ v(m - 1) % 4 # 0 THEN NULL
        ELSE Some([j \in 1..n |-> byte(j - 1)])

\* BASE64_URL_SAFE_NO_PAD.decode: None stands for the DecodeError (a byte
\* outside the alphabet, padding included; an impossible length; bits set
\* after the last whole byte)
Base64UrlDecode(text) == Base64DecodeSextets(Base64UrlAlphabet, text)

\* the passphrases typed in the model, as bytes
Passphrases == {<<112>>, <<113>>}

RECURSIVE SumBytes(_)
SumBytes(bytes) ==
    IF Len(bytes) = 0 THEN 0 ELSE bytes[1] + SumBytes(Tail(bytes))

\* blocking_argon2id(secret, passphrase, salt, ..): a stand-in for the
\* derivation that, like it, gives different secrets for the different
\* passphrases of the model
argon2id(pass, salt) ==
    [i \in 1..XSALSA_KEYBYTES |->
        (SumBytes(pass) + salt[((i - 1) % ARGON2_ID_SALTBYTES) + 1] + i) % 256]

\* the authentication tag of a ciphertext: a stand-in for Poly1305 that,
\* like it, changes with the secret and with every byte of the ciphertext
SecretboxTag(ct, nonce, secret) ==
    [i \in 1..XSALSA_MACBYTES |->
        (secret[i] + nonce[i] + ct[i] + ct[i + XSALSA_MACBYTES]) % 256]

\* the key stream: a stand-in for XChaCha20
SecretboxStream(nonce, secret) ==
    [i \in 1..XSALSA_KEYBYTES |->
        (secret[i] + nonce[((i - 1) % XSALSA_NONCEBYTES) + 1]) % 256]

\* crypto_secretbox_xchacha20poly1305_easy, by which the conductor sealed
\* the key: the tag, then the encrypted message
secretbox_easy(message, nonce, secret) ==
    LET ct == [i \in 1..Len(message) |->
                 (message[i] + SecretboxStream(nonce, secret)[i]) % 256]
    IN  SecretboxTag(ct, nonce, secret) \o ct

\* legacy_xsalsa_open_easy without the authentication of the cipher
legacy_xsalsa_open_easy_Unauthenticated(message_len, cipher, nonce, shared_key) ==
    LET ct == SubSeq(cipher, XSALSA_MACBYTES + 1, Len(cipher))
    IN  Some([i \in 1..Len(ct) |->
                (ct[i] + 256 - SecretboxStream(nonce, shared_key)[i]) % 256])

\* legacy_xsalsa_open_easy: the message, or None for its Err
legacy_xsalsa_open_easy(message_len, cipher, nonce, shared_key) ==
    LET msg_len == Len(cipher) - XSALSA_MACBYTES
        tag == SubSeq(cipher, 1, XSALSA_MACBYTES)
        ct == SubSeq(cipher, XSALSA_MACBYTES + 1, Len(cipher))
    IN  IF message_len # msg_len THEN NULL
        ELSE IF SecretboxTag(ct, nonce, shared_key) # tag THEN NULL
        ELSE Some([i \in 1..Len(ct) |->
                     (ct[i] + 256 - SecretboxStream(nonce, shared_key)[i]) % 256])

\* what a call returned: tag is "Ok", "Err" or "Panic", value the Ok value,
\* error the message, derivations the number of argon2id runs it made
KeyResult(tag, value, err, n) ==
    [tag |-> tag, value |-> value, error |-> err, derivations |-> n]

\* Key::load
Key_load(file, pass) ==
    IF ~file.exists \/ ~file.utf8 THEN KeyResult("Err", NULL, "IO", 0)
    ELSE
    LET decoded == Base64UrlDecode(file.text) IN
    IF decoded = NULL THEN KeyResult("Err", NULL, "Other: DecodeError", 0)
    ELSE
    LET blob == decoded[1]
        salt_index == XSALSA_NONCEBYTES + XSALSA_MACBYTES + XSALSA_KEYBYTES
    IN
    IF Len(blob) < salt_index + ARGON2_ID_SALTBYTES
    THEN KeyResult("Panic", NULL, "range end index out of range for slice", 0)
    ELSE
    LET salt == SubSeq(blob, salt_index + 1, salt_index + ARGON2_ID_SALTBYTES)
        secret == argon2id(pass, salt)
        nonce == SubSeq(blob, 1, XSALSA_NONCEBYTES)
        cipher == SubSeq(blob, XSALSA_NONCEBYTES + 1, salt_index)
        opened == legacy_xsalsa_open_easy(XSALSA_KEYBYTES, cipher, nonce, secret)
    IN
    IF opened = NULL THEN KeyResult("Err", NULL, "Failed to decrypt key", 1)
    ELSE KeyResult("Ok", Some([key |-> opened[1], salt |-> salt]), "", 1)

\* load_database_key without the test that the file exists
load_database_key_NoExistsTest(file, pass) == Key_load(file, pass)

\* load_database_key
load_database_key(file, pass) ==
    IF file.exists THEN Key_load(file, pass)
    ELSE KeyResult("Ok", NULL, "", 0)

\* the database key, nonce and salt of the conductors of the model
DatabaseKey == [i \in 1..XSALSA_KEYBYTES |-> i]
BlobNonce == [i \in 1..XSALSA_NONCEBYTES |-> 100 + i]
BlobSalt == [i \in 1..ARGON2_ID_SALTBYTES |-> 200 + i]

\* the key blob a conductor with passphrase pass writes
KeyBlob(pass) ==
    BlobNonce \o secretbox_easy(DatabaseKey, BlobNonce, argon2id(pass, BlobSalt))
        \o BlobSalt

KeyFile(exists, utf8, text) == [exists |-> exists, utf8 |-> utf8, text |-> text]

\* the key file a conductor with passphrase pass writes
WellFormedKeyFile(pass) == KeyFile(TRUE, TRUE, Base64UrlEncode(KeyBlob(pass)))

\* a key blob with one byte of its cipher changed
CorruptBlob(blob) ==
    [blob EXCEPT ![XSALSA_NONCEBYTES + XSALSA_MACBYTES + 1] = (@ + 1) % 256]

\* the lengths of the truncated key blobs of the model
ShortLengths ==
    {0, XSALSA_NONCEBYTES,
     XSALSA_NONCEBYTES + XSALSA_MACBYTES + XSALSA_KEYBYTES, KeyBlobLen - 1}

\* the key files of the model: none, one that is not text, the well-formed
\* ones, truncated ones, one with trailing bytes, a corrupt one, and one
\* that is not base64 (a well-formed one followed by a line feed)
KeyFiles ==
    {KeyFile(FALSE, FALSE, <<>>), KeyFile(TRUE, FALSE, <<>>)}
    \cup {WellFormedKeyFile(p) : p \in Passphrases}
    \cup {KeyFile(TRUE, TRUE, Base64UrlEncode(SubSeq(KeyBlob(<<112>>), 1, n))) :
            n \in ShortLengths}
    \cup {KeyFile(TRUE, TRUE, Base64UrlEncode(KeyBlob(<<112>>) \o <<0>>)),
          KeyFile(TRUE, TRUE, Base64UrlEncode(CorruptBlob(KeyBlob(<<112>>)))),
          KeyFile(TRUE, TRUE, Base64UrlEncode(KeyBlob(<<112>>)) \o <<"\n">>)}

\* the apps a conductor may list, and the DNAs of their provisioned and
\* cloned cells
Apps == {"app1", "app2"}
DnasOf(app) == IF app = "app1" THEN {"dna1", "dna2"} ELSE {}

\* the three stores opened for a DNA: authored, DHT, cache
StoreKinds == <<"Authored", "Dht", "Cache">>

ExploreInit ==
    /\ key_file \in KeyFiles
    /\ passphrase = <<>>
    /\ epc = "prompt"
    /\ load_tag = ""
    /\ key = NULL
    /\ error = ""
    /\ prompts = 0
    /\ derivations = 0
    /\ opens = 0
    /\ apps = {}
    /\ use_app = ""
    /\ use_dna = ""
    /\ op_outcome = <<>>

\* rpassword::prompt_password(..)?
PromptPassword ==
    /\ epc = "prompt"
    /\ prompts' = prompts + 1
    /\ \/ \E p \in Passphrases :
            /\ passphrase' = p
            /\ epc' = "load_key"
            /\ error' = error
       \/ /\ passphrase' = passphrase
          /\ epc' = "error"
          /\ error' = "IO"
    /\ UNCHANGED <<key_file, load_tag, key, derivations, opens, apps, use_app,
                   use_dna, op_outcome>>
    /\ UNCHANGED exceptKey

\* let mut key = load_database_key(data_root_path, pass)?
LoadDatabaseKey ==
    /\ epc = "load_key"
    /\ LET r == load_database_key(key_file, passphrase) IN
        /\ load_tag' = r.tag
        /\ key' = r.value
        /\ error' = r.error
        /\ derivations' = derivations + r.derivations
        /\ epc' = IF r.tag = "Ok" THEN "list_apps"
                  ELSE IF r.tag = "Err" THEN "error" ELSE "panic"
    /\ UNCHANGED <<key_file, passphrase, prompts, opens, apps, use_app,
                   use_dna, op_outcome>>
    /\ UNCHANGED exceptKey

\* let apps = client.list_apps(None).await?
ListApps ==
    /\ epc = "list_apps"
    /\ \/ \E a \in SUBSET Apps :
            /\ apps' = a
            /\ epc' = "select_app"
            /\ error' = error
       \/ /\ apps' = apps
          /\ epc' = "error"
          /\ error' = "HolochainClient"
    /\ UNCHANGED <<key_file, passphrase, load_tag, key, prompts, derivations,
                   opens, use_app, use_dna, op_outcome>>
    /\ UNCHANGED exceptKey

\* select_app(&apps)?
SelectApp ==
    /\ epc = "select_app"
    /\ IF apps = {}
       THEN /\ epc' = "error"
            /\ error' = "No apps found"
            /\ use_app' = use_app
       ELSE \/ \E a \in apps :
                 /\ use_app' = a
                 /\ epc' = "select_dna"
                 /\ error' = error
            \/ /\ use_app' = use_app
               /\ epc' = "done"
               /\ error' = error
            \/ /\ use_app' = use_app
               /\ epc' = "error"
               /\ error' = "IO"
    /\ UNCHANGED <<key_file, passphrase, load_tag, key, prompts, derivations,
                   opens, apps, use_dna, op_outcome>>
    /\ UNCHANGED exceptKey

\* select_dna(use_app)?
SelectDna ==
    /\ epc = "select_dna"
    /\ IF DnasOf(use_app) = {}
       THEN /\ epc' = "select_app"
            /\ error' = error
            /\ use_dna' = use_dna
       ELSE \/ /\ epc' = "open"
               /\ error' = error
               /\ use_dna' \in DnasOf(use_app)
            \/ /\ epc' = "select_app"
               /\ error' = error
               /\ use_dna' = use_dna
            \/ /\ epc' = "error"
               /\ error' = "IO"
               /\ use_dna' = use_dna
    /\ UNCHANGED <<key_file, passphrase, load_tag, key, prompts, derivations,
                   opens, apps, use_app, op_outcome>>
    /\ UNCHANGED exceptKey

\* the three open_holochain_database(.., key.as_mut()).context(..)? of one
\* round of the innermost loop: n calls are made, and the last of them may
\* fail
OpenStores ==
    /\ epc = "open"
    /\ opens + Len(StoreKinds) <= MaxReopens * Len(StoreKinds)
    /\ \E n \in 1..Len(StoreKinds) :
        /\ opens' = opens + n
        /\ \/ /\ n = Len(StoreKinds)
              /\ epc' = "run"
              /\ error' = error
           \/ /\ epc' = "error"
              /\ error' = "Failed to open the database"
    /\ UNCHANGED <<key_file, passphrase, load_tag, key, prompts, derivations,
                   apps, use_app, use_dna, op_outcome>>
    /\ UNCHANGED exceptKey

\* the items of the operation menu
Operations == {"WhoIsHere", "AgentChain", "Pending", "SliceHashes",
               "OpsInSlice", "Dump", "Back", "Exit"}

\* how the arm of one item can end: "Ok" is the end of the arm, "Err" a `?`
\* that returns the error, "Panic" an unwrap inside the call (the bulk reads
\* of Dump are load(conn).unwrap(), get_ops_in_slice unwraps a nullable
\* column and converts with from_raw_39)
OutcomesOf(operation) ==
    CASE operation = "Back" -> {"Ok(false)"}
      [] operation = "Exit" -> {"Ok(true)"}
      [] operation \in {"OpsInSlice", "Dump"} -> {"Ok", "Err", "Panic"}
      [] OTHER -> {"Ok", "Err"}

\* where start_explorer goes after one pass of the loop of run_explorer
\* ended with that outcome
AfterOutcome(outcome) ==
    CASE outcome = "Ok" -> "run"
      [] outcome = "Err" -> "open"
      [] outcome = "Ok(false)" -> "select_dna"
      [] outcome = "Ok(true)" -> "done"
      [] outcome = "Panic" -> "panic"

\* start_explorer where a failed operation asks for the passphrase again
AfterOutcome_Reprompt(outcome) ==
    IF outcome = "Err" THEN "prompt" ELSE AfterOutcome(outcome)

\* run_explorer where a failed operation asks for the passphrase again
RunExplorer_Reprompt ==
    /\ epc = "run"
    /\ \/ /\ op_outcome' = <<"menu", "Err">>
          /\ epc' = AfterOutcome_Reprompt("Err")
       \/ \E operation \in Operations : \E outcome \in OutcomesOf(operation) :
             /\ op_outcome' = <<operation, outcome>>
             /\ epc' = AfterOutcome_Reprompt(outcome)
    /\ UNCHANGED <<key_file, passphrase, load_tag, key, error, prompts,
                   derivations, opens, apps, use_app, use_dna>>
    /\ UNCHANGED exceptKey

\* one pass of the loop of run_explorer and, when it returns, the match of
\* start_explorer on what it returned: the menu's interact()? may fail, the
\* chosen arm ends as OutcomesOf says; Ok(true) leaves the explorer,
\* Ok(false) goes back to the DNAs, Err(e) is printed and the stores are
\* opened again, a panic ends the process
RunExplorer ==
    /\ epc = "run"
    /\ \/ /\ op_outcome' = <<"menu", "Err">>
          /\ epc' = AfterOutcome("Err")
       \/ \E operation \in Operations : \E outcome \in OutcomesOf(operation) :
             /\ op_outcome' = <<operation, outcome>>
             /\ epc' = AfterOutcome(outcome)
    /\ UNCHANGED <<key_file, passphrase, load_tag, key, error, prompts,
                   derivations, opens, apps, use_app, use_dna>>
    /\ UNCHANGED exceptKey

ExploreNext ==
    \/ PromptPassword
    \/ LoadDatabaseKey
    \/ ListApps
    \/ SelectApp
    \/ SelectDna
    \/ OpenStores
    \/ RunExplorer

\* no explorer is running
KeyIdle ==
    /\ key_file = KeyFile(FALSE, FALSE, <<>>)
    /\ passphrase = <<>>
    /\ epc = "idle"
    /\ load_tag = ""
    /\ key = NULL
    /\ error = ""
    /\ prompts = 0
    /\ derivations = 0
    /\ opens = 0
    /\ apps = {}
    /\ use_app = ""
    /\ use_dna = ""
    /\ op_outcome = <<>>

\* ---------------------------------------------------------------------
\* The dump parser (load_hash_file of src/hc-ops/compare.rs)
\* ---------------------------------------------------------------------

\* the box-drawing characters of a rendered table, by code point
BoxVertical == "U+2502"
BoxLeft == "U+251C"
BoxRight == "U+2524"
BoxHorizontal == "U+2500"

\* what alt((space1, tag(left), tag(vertical), tag(right))) accepts
FillerChars == {" ", "\t", BoxLeft, BoxVertical, BoxRight}

\* str::lines(): the text between line feeds, without the carriage return
\* that precedes a line feed; a final line feed starts no further line
RECURSIVE Lines(_)
Lines(text) ==
    IF text = <<>> THEN <<>>
    ELSE IF \A p \in 1..Len(text) : text[p] # "\n" THEN <<text>>
    ELSE LET p == SetMin({q \in 1..Len(text) : text[q] = "\n"})
             line == SubSeq(text, 1, p - 1)
         IN  <<IF line # <<>> /\ line[Len(line)] = "\r"
               THEN SubSeq(line, 1, Len(line) - 1) ELSE line>>
             \o Lines(SubSeq(text, p + 1, Len(text)))

\* the first position from i on whose character is not in S (Len + 1 when
\* there is none)
SkipWhile(line, i, S) ==
    SetMin({j \in i..(Len(line) + 1) : j = Len(line) + 1 \/ line[j] \notin S})

\* the parsers below take the line and the position of the next character
\* and give None, or the position after what they consumed

\* many0 in place of many1: no filler is accepted too
many0_filler(line, i) == Some(SkipWhile(line, i, FillerChars))

\* many1(alt((space1, tag(left), tag(vertical), tag(right))))
many1_filler(line, i) ==
    IF SkipWhile(line, i, FillerChars) = i THEN NULL
    ELSE Some(SkipWhile(line, i, FillerChars))

\* tag(t)
tag(t, line, i) ==
    IF i + Len(t) - 1 <= Len(line) /\ SubSeq(line, i, i + Len(t) - 1) = t
    THEN Some(i + Len(t)) ELSE NULL

\* digit1
digit1(line, i) ==
    IF SkipWhile(line, i, Range(DigitChars)) = i THEN NULL
    ELSE Some(SkipWhile(line, i, Range(DigitChars)))

DigitValue(c) == (CHOOSE d \in 1..Len(DigitChars) : DigitChars[d] = c) - 1

\* bytes * 10 + carry on little-endian bytes: the bytes, then the carry out
RECURSIVE MulAdd10(_, _)
MulAdd10(bytes, carry) ==
    IF bytes = <<>> THEN <<carry>>
    ELSE <<((Head(bytes) * 10) + carry) % 256>>
         \o MulAdd10(Tail(bytes), ((Head(bytes) * 10) + carry) \div 256)

\* s.parse::<u32>() (width 4) and s.parse::<u64>() (width 8) of a string of
\* digits: the little-endian bytes of the number, None when it does not fit
RECURSIVE ParseUnsigned(_, _, _)
ParseUnsigned(digits, width, acc) ==
    IF digits = <<>> THEN Some(acc)
    ELSE LET t == MulAdd10(acc, DigitValue(Head(digits))) IN
         IF t[width + 1] # 0 THEN NULL
         ELSE ParseUnsigned(Tail(digits), width, SubSeq(t, 1, width))

\* `x as i32` of a u32, `x as i64` of a u64, from the little-endian bytes: the
\* two's complement value (for the 8-byte numbers of the model it fits the
\* integers of the model)
RECURSIVE Magnitude(_)
Magnitude(bytes) ==
    IF bytes = <<>> THEN 0 ELSE Head(bytes) + (256 * Magnitude(Tail(bytes)))

AsSigned(bytes) ==
    IF bytes[Len(bytes)] >= 128
    THEN -1 - Magnitude([i \in 1..Len(bytes) |-> 255 - bytes[i]])
    ELSE Magnitude(bytes)

\* take_until(" ")
take_until_space(line, i) ==
    IF \A j \in i..Len(line) : line[j] # " " THEN NULL
    ELSE Some(SetMin({j \in i..Len(line) : line[j] = " "}))

\* BASE64_STANDARD.decode: the padding is required
Base64Decode(text) ==
    LET m == Len(text)
        pad == IF m >= 2 /\ text[m] = "=" /\ text[m - 1] = "=" THEN 2
               ELSE IF m >= 1 /\ text[m] = "=" THEN 1 ELSE 0
        body == SubSeq(text, 1, m - pad)
    IN  IF m % 4 # 0 THEN NULL
        ELSE IF pad = 1 /\ Len(body) % 4 # 3 THEN NULL
        ELSE IF pad = 2 /\ Len(body) % 4 # 2 THEN NULL
        ELSE Base64DecodeSextets(Base64Alphabet, body)

\* the tuple parser of load_hash_file applied to a line: None when it fails,
\* else the SliceHash pushed
ParseHashLine(line) ==
    LET p1 == many1_filler(line, 1) IN
    IF p1 = NULL THEN NULL ELSE
    LET p2 == tag(<<"A", "r", "c", "(">>, line, p1[1]) IN
    IF p2 = NULL THEN NULL ELSE
    LET p3 == digit1(line, p2[1]) IN
    IF p3 = NULL THEN NULL ELSE
    LET start == ParseUnsigned(SubSeq(line, p2[1], p3[1] - 1), 4, ToBytes(0, 4)) IN
    IF start = NULL THEN NULL ELSE
    LET p4 == tag(<<",", " ">>, line, p3[1]) IN
    IF p4 = NULL THEN NULL ELSE
    LET p5 == digit1(line, p4[1]) IN
    IF p5 = NULL THEN NULL ELSE
    LET end == ParseUnsigned(SubSeq(line, p4[1], p5[1] - 1), 4, ToBytes(0, 4)) IN
    IF end = NULL THEN NULL ELSE
    LET p6 == tag(<<")">>, line, p5[1]) IN
    IF p6 = NULL THEN NULL ELSE
    LET p7 == many1_filler(line, p6[1]) IN
    IF p7 = NULL THEN NULL ELSE
    LET p8 == digit1(line, p7[1]) IN
    IF p8 = NULL THEN NULL ELSE
    LET index == ParseUnsigned(SubSeq(line, p7[1], p8[1] - 1), 8, ToBytes(0, 8)) IN
    IF index = NULL THEN NULL ELSE
    LET p9 == many1_filler(line, p8[1]) IN
    IF p9 = NULL THEN NULL ELSE
    LET p10 == take_until_space(line, p9[1]) IN
    IF p10 = NULL THEN NULL ELSE
    LET hash == Base64Decode(SubSeq(line, p9[1], p10[1] - 1)) IN
    IF hash = NULL THEN NULL ELSE
    Some([arc_start |-> AsSigned(start[1]), arc_end |-> AsSigned(end[1]),
          slice_index |-> AsSigned(index[1]), hash |-> hash[1]])

\* the text Arc(start, end)
ArcText(start, end) == <<"A", "r", "c", "(">> \o start \o <<",", " ">> \o end \o <<")">>

\* the lines of the dumps of the model: two rows of a rendered table (the
\* first the full arc 0..u32::MAX), a header line, a border line, an empty
\* line, a row without leading filler, a row whose arc start exceeds
\* u32::MAX, a row whose digest is not base64, a row whose digest is not
\* followed by a space, and a row whose slice index exceeds u64::MAX
DumpLines ==
    {<<BoxVertical, " ">>
        \o ArcText(<<"0">>, <<"4", "2", "9", "4", "9", "6", "7", "2", "9", "5">>)
        \o <<" ", BoxVertical, " ", "7", " ", BoxVertical, " ", "A", "Q", "=", "=",
             " ", BoxVertical>>,
     <<" ", " ">> \o ArcText(<<"1">>, <<"1", "1">>)
        \o <<"\t", "0", "1", "1", " ", "A", "Q", "A", "=", " ">>,
     <<BoxVertical, " ", "D", "H", "T", " ", "a", "r", "c", " ", BoxVertical>>,
     <<BoxLeft, BoxHorizontal, BoxHorizontal, BoxRight>>,
     <<>>,
     ArcText(<<"1">>, <<"1", "1">>) \o <<" ", "1", " ", "A", "Q", "=", "=", " ">>,
     <<" ">> \o ArcText(<<"4", "2", "9", "4", "9", "6", "7", "2", "9", "6">>, <<"1">>)
        \o <<" ", "1", " ", "A", "Q", "=", "=", " ">>,
     <<" ">> \o ArcText(<<"1">>, <<"1", "1">>) \o <<" ", "1", " ", "A", "Q", "=", " ">>,
     <<" ">> \o ArcText(<<"1">>, <<"1", "1">>) \o <<" ", "1", " ", "A", "Q", "=", "=">>,
     <<" ">> \o ArcText(<<"1">>, <<"1", "1">>)
        \o <<" ", "1", "8", "4", "4", "6", "7", "4", "4", "0", "7", "3", "7", "0", "9",
             "5", "5", "1", "6", "1", "6", " ", "A", "Q", "=", "=", " ">>}

\* the line endings of the dumps of the model
LineEndings == {<<"\n">>, <<"\r", "\n">>}

\* the text of a file of the given lines
RECURSIVE JoinLines(_, _)
JoinLines(ls, eol) ==
    IF ls = <<>> THEN <<>> ELSE Head(ls) \o eol \o JoinLines(Tail(ls), eol)

\* the dump files of the model: one that is not text, and the texts of at
\* most MaxLines lines
DumpFiles ==
    {[utf8 |-> FALSE, text |-> <<>>]}
    \cup {[utf8 |-> TRUE, text |-> JoinLines(ls, eol)] :
            ls \in SeqsUpTo(MaxLines, DumpLines), eol \in LineEndings}

ParseInit ==
    /\ dump \in DumpFiles
    /\ hpc = "read"
    /\ hlines = <<>>
    /\ line_no = 0
    /\ out = <<>>
    /\ load_error = ""

\* std::fs::read_to_string(path).context("Failed to load input file")?.lines()
ReadDump ==
    /\ hpc = "read"
    /\ IF dump.utf8
       THEN /\ hlines' = Lines(dump.text)
            /\ hpc' = "lines"
            /\ load_error' = load_error
       ELSE /\ hlines' = hlines
            /\ hpc' = "error"
            /\ load_error' = "Failed to load input file"
    /\ UNCHANGED <<dump, line_no, out>>
    /\ UNCHANGED exceptParse

\* one iteration of the loop over the lines: a line the parser fails on is
\* skipped by `continue`, the record of any other line is pushed
ParseNextLine ==
    /\ hpc = "lines"
    /\ line_no < Len(hlines)
    /\ line_no' = line_no + 1
    /\ out' = IF ParseHashLine(hlines[line_no + 1]) = NULL THEN out
              ELSE Append(out, ParseHashLine(hlines[line_no + 1])[1])
    /\ UNCHANGED <<dump, hpc, hlines, load_error>>
    /\ UNCHANGED exceptParse

\* Ok(out)
ReturnHashes ==
    /\ hpc = "lines"
    /\ line_no = Len(hlines)
    /\ hpc' = "done"
    /\ UNCHANGED <<dump, hlines, line_no, out, load_error>>
    /\ UNCHANGED exceptParse

ParseNext == ReadDump \/ ParseNextLine \/ ReturnHashes

\* no dump is being parsed
ParseIdle ==
    /\ dump = [utf8 |-> FALSE, text |-> <<>>]
    /\ hpc = "idle"
    /\ hlines = <<>>
    /\ line_no = 0
    /\ out = <<>>
    /\ load_error = ""

\* ---------------------------------------------------------------------
\* Cell initialisation (is_cell_initialized of src/ops.rs, against the
\* conductor of tests/ops.rs)
\* ---------------------------------------------------------------------

\* serde_json::Value
JsonString(s) == [kind |-> "string", value |-> s]
JsonArray(items) == [kind |-> "array", items |-> items]
JsonObject(fields) == [kind |-> "object", fields |-> fields]

\* Value::as_array, Value::as_object, Value::as_str, Map::get, slice::first
as_array(v) == IF v.kind = "array" THEN Some(v.items) ELSE NULL
as_object(v) == IF v.kind = "object" THEN Some(v.fields) ELSE NULL
as_str(v) == IF v.kind = "string" THEN Some(v.value) ELSE NULL
get(fields, name) == IF name \in DOMAIN fields THEN Some(fields[name]) ELSE NULL
first(items) == IF items = <<>> THEN NULL ELSE Some(items[1])

\* Option::and_then
and_then(opt, f(_)) == IF opt = NULL THEN NULL ELSE f(opt[1])

\* the record of the state dump for an action of the given type
JsonRecord(typ) ==
    JsonObject([action |-> JsonObject([type |-> JsonString(typ)])])

\* the source chain dump within the state dump
JsonSourceChainDump(types) ==
    JsonObject([records |-> JsonArray([i \in 1..Len(types) |-> JsonRecord(types[i])])])

\* what dump_state answers for a cell: the (JsonDump, String) tuple of the
\* conductor of the test, or for another conductor the JsonDump on its own
DumpState(kind, types) ==
    IF kind = "tuple"
    THEN JsonArray(<<JsonObject([source_chain_dump |-> JsonSourceChainDump(types)]),
                     JsonString("summary")>>)
    ELSE JsonObject([source_chain_dump |-> JsonSourceChainDump(types)])

\* record.get("action").and_then(as_object).and_then(get("type")).and_then(as_str)
RecordType(record) ==
    LET action == and_then(as_object(record), LAMBDA o : get(o, "action"))
        obj == and_then(action, as_object)
        typ == and_then(obj, LAMBDA o : get(o, "type"))
    IN  and_then(typ, as_str)

\* dump.as_array().and_then(first).and_then(as_object)
\*     .and_then(get("source_chain_dump") as object).and_then(get("records") as array)
DumpRecords(value) ==
    LET tuple == as_array(value)
        head == and_then(tuple, first)
        obj == and_then(head, as_object)
        chain_dump == and_then(and_then(obj, LAMBDA o : get(o, "source_chain_dump")),
                               as_object)
    IN  and_then(and_then(chain_dump, LAMBDA o : get(o, "records")), as_array)

\* is_cell_initialized looking at the last record only
is_cell_initialized_LastRecord(response) ==
    IF response = NULL THEN "Err: HolochainClient"
    ELSE IF DumpRecords(response[1]) = NULL THEN "Err: No records found in dump"
    ELSE LET records == DumpRecords(response[1])[1] IN
         IF records # <<>> /\ RecordType(records[Len(records)]) = Some("InitZomesComplete")
         THEN "Ok(true)" ELSE "Ok(false)"

\* is_cell_initialized, given the answer of dump_state (None when the
\* conductor knows no such cell)
is_cell_initialized(response) ==
    IF response = NULL THEN "Err: HolochainClient"
    ELSE IF DumpRecords(response[1]) = NULL THEN "Err: No records found in dump"
    ELSE LET records == DumpRecords(response[1])[1] IN
         IF \E i \in 1..Len(records) : RecordType(records[i]) = Some("InitZomesComplete")
         THEN "Ok(true)" ELSE "Ok(false)"

\* the actions genesis writes when the app is installed
GenesisActions == <<"Dna", "AgentValidationPkg", "Create">>

\* the actions the init callback of the fixture writes (put_sample_data),
\* followed by the action that marks the end of the initialisation
InitActions ==
    <<"Create", "Create", "Create", "Create", "Create", "Update", "Delete",
      "CreateLink", "DeleteLink", "CreateLink", "InitZomesComplete">>

\* the action the zome function create writes
CreateActions == <<"Create">>

CellInit ==
    /\ conductor \in {"tuple", "object"}
    /\ app_state = "none"
    /\ source_chain = <<>>
    /\ zome_calls = 0
    /\ init_checks = <<>>

\* conductor.install_app_bundle(..): genesis of the provisioned cell
InstallApp ==
    /\ app_state = "none"
    /\ app_state' = "installed"
    /\ source_chain' = GenesisActions
    /\ UNCHANGED <<conductor, zome_calls, init_checks>>
    /\ UNCHANGED exceptCell

\* conductor.enable_app("fixture")
EnableApp ==
    /\ app_state = "installed"
    /\ app_state' = "enabled"
    /\ UNCHANGED <<conductor, source_chain, zome_calls, init_checks>>
    /\ UNCHANGED exceptCell

\* conductor.easy_call_zome(.., "fixture", "create", ..): the first call
\* runs the init callback before the function called
CallZome ==
    /\ app_state = "enabled"
    /\ zome_calls < MaxZomeCalls
    /\ zome_calls' = zome_calls + 1
    /\ source_chain' =
          source_chain \o (IF zome_calls = 0 THEN InitActions ELSE <<>>) \o CreateActions
    /\ UNCHANGED <<conductor, app_state, init_checks>>
    /\ UNCHANGED exceptCell

\* client.is_cell_initialized(cell_id).await
IsCellInitialized ==
    /\ Len(init_checks) < MaxChecks
    /\ init_checks' = Append(init_checks,
          [returned |-> is_cell_initialized(
                            IF app_state = "none" THEN NULL
                            ELSE Some(DumpState(conductor, source_chain))),
           app_state |-> app_state,
           source_chain |-> source_chain,
           zome_calls |-> zome_calls])
    /\ UNCHANGED <<conductor, app_state, source_chain, zome_calls>>
    /\ UNCHANGED exceptCell

CellNext == InstallApp \/ EnableApp \/ CallZome \/ IsCellInitialized

\* no conductor is running
CellIdle ==
    /\ conductor = ""
    /\ app_state = "idle"
    /\ source_chain = <<>>
    /\ zome_calls = 0
    /\ init_checks = <<>>

\* ---------------------------------------------------------------------
\* Bulk reads of the DhtOp table (get_all_dht_ops, get_ops_by_action_hash
\* of src/retrieve.rs; the decoding of src/retrieve/model.rs)
\* ---------------------------------------------------------------------

\* the nine discriminants of DhtOpType
DhtOpTypes ==
    {"StoreRecord", "StoreEntry", "RegisterAgentActivity", "RegisterUpdatedContent",
     "RegisterUpdatedRecord", "RegisterDeletedBy", "RegisterDeletedEntryAction",
     "RegisterAddLink", "RegisterRemoveLink"}

\* the strings stored in the type column in the model: the nine
\* discriminants, one of an older schema and one in another case
StoredTypes == DhtOpTypes \cup {"StoreElement", "storerecord"}

\* the action hashes of the rows of the table of the model
ReadHashes == {1, 2}

\* rows of the DhtOp table, as far as the bulk reads decode them: the type
\* column is nullable
TypedOpRows ==
    {[action_hash |-> h, typ |-> t] :
        h \in ReadHashes, t \in {NULL} \cup {Some(s) : s \in StoredTypes}}

\* FromSql for DhtOpType that takes an unknown string for no type
DhtOpType_from_sql_Lenient(v) ==
    IF v \in DhtOpTypes THEN [ok |-> TRUE, value |-> Some(v), error |-> <<>>]
    ELSE [ok |-> TRUE, value |-> NULL, error |-> <<>>]

\* FromSql for DhtOpType
DhtOpType_from_sql(v) ==
    IF v \in DhtOpTypes THEN [ok |-> TRUE, value |-> Some(v), error |-> <<>>]
    ELSE [ok |-> FALSE, value |-> NULL, error |-> <<"Unknown DhtOpType: ", v>>]

\* the deserialisation of a row into DbDhtOp: typ is an Option<DhtOpType>
DbDhtOp_from_row(row) ==
    IF row.typ = NULL
    THEN [ok |-> TRUE, value |-> [action_hash |-> row.action_hash, typ |-> NULL],
          error |-> <<>>]
    ELSE LET t == DhtOpType_from_sql(row.typ[1]) IN
         [ok |-> t.ok, value |-> [action_hash |-> row.action_hash, typ |-> t.value],
          error |-> t.error]

\* the reads: get_all_dht_ops(conn), get_ops_by_action_hash(conn, hash)
ReadCalls ==
    {[fn |-> "get_all_dht_ops", hash |-> 0]}
    \cup {[fn |-> "get_ops_by_action_hash", hash |-> h] : h \in ReadHashes}

\* the rows the query of a read selects
Selected(call, row) ==
    call.fn = "get_all_dht_ops" \/ row.action_hash = call.hash

\* no value returned yet
NoReadResult == [tag |-> "", rows |-> <<>>, error |-> <<>>]

DumpInit ==
    /\ op_table \in SeqsUpTo(MaxRows, TypedOpRows)
    /\ read_call \in ReadCalls
    /\ rpc = "load"
    /\ row_no = 0
    /\ rows_loaded = <<>>
    /\ read_result = NoReadResult

\* .load(conn) takes the next row of the table: a row the query does not
\* select is passed over, a selected row is deserialised; a row that does
\* not deserialise ends the load with the error, which get_all_dht_ops
\* unwraps (a panic that carries the error) and get_ops_by_action_hash
\* returns through `?`
LoadRow ==
    /\ rpc = "load"
    /\ row_no < Len(op_table)
    /\ row_no' = row_no + 1
    /\ LET row == op_table[row_no + 1]
           r == DbDhtOp_from_row(row)
       IN  IF ~Selected(read_call, row)
           THEN UNCHANGED <<rpc, rows_loaded, read_result>>
           ELSE IF r.ok
           THEN /\ rows_loaded' = Append(rows_loaded, r.value)
                /\ UNCHANGED <<rpc, read_result>>
           ELSE /\ rows_loaded' = <<>>
                /\ rpc' = "failed"
                /\ read_result' =
                      [tag |-> IF read_call.fn = "get_all_dht_ops"
                               THEN "Panic" ELSE "Err",
                       rows |-> <<>>, error |-> r.error]
    /\ UNCHANGED <<op_table, read_call>>
    /\ UNCHANGED exceptDump

\* the load is through the table: the rows loaded are returned
ReturnLoaded ==
    /\ rpc = "load"
    /\ row_no = Len(op_table)
    /\ rpc' = "done"
    /\ read_result' = [tag |-> "Ok", rows |-> rows_loaded, error |-> <<>>]
    /\ UNCHANGED <<op_table, read_call, row_no, rows_loaded>>
    /\ UNCHANGED exceptDump

DumpNext == LoadRow \/ ReturnLoaded

\* no bulk read is running
DumpIdle ==
    /\ op_table = <<>>
    /\ read_call = [fn |-> "", hash |-> 0]
    /\ rpc = "idle"
    /\ row_no = 0
    /\ rows_loaded = <<>>
    /\ read_result = NoReadResult

\* no slice is being computed
TimeIdle ==
    /\ slice_index = <<>>
    /\ overflow_checks = FALSE
    /\ tpc = "idle"
    /\ bounds_n = NoBounds
    /\ bounds_n1 = NoBounds

\* no comparison is running
DiffIdle ==
    /\ file_a = <<>>
    /\ file_b = <<>>
    /\ run = 0
    /\ dpc = "idle"
    /\ our_hashes = <<>>
    /\ their_hashes = <<>>
    /\ diff_table = <<>>
    /\ reports = <<>>

\* ---------------------------------------------------------------------
\* merge_into_chain on any chain and any records
\* ---------------------------------------------------------------------

\* the records a chain may hold
BaseRecords == {ChainRecord(h, v) : h \in Hashes, v \in {"Valid", "Rejected"}}

\* the records merged into a chain
MergedRecords == {ChainRecord(h, "Valid") : h \in Hashes}

\* the loop of get_agent_chain on a chain and on records in any order, as the
\* tests of merge_into_chain call it
MergeInit ==
    /\ dht_op = {}
    /\ dht_action = {}
    /\ cache_action = {}
    /\ agent_pub_key = 1
    /\ pc = "merge"
    /\ base \in SeqsUpTo(MaxBase, BaseRecords)
    /\ chain = base
    /\ cache_chain \in SeqsUpTo(MaxMerged, MergedRecords)
    /\ idx = 0
    /\ corrupt = {}
    /\ entry_rows = {}
    /\ pending = NoPending

MergeLoopNext == MergeNext \/ ReturnChain

\* ---------------------------------------------------------------------
\* Agent listing (list_discovered_agents)
\* ---------------------------------------------------------------------

\* Action.type: the odd actions of the model are agent-validation markers
TypOf(h) == IF h % 2 = 1 THEN "AgentValidationPkg" ELSE "Create"

\* rows of the DhtOp table, as far as list_dht_agent_keys reads them: both
\* validation_status and when_integrated are nullable columns, written by
\* different workflows
AgentOpRows ==
    {[action_hash |-> h, validation_status |-> v, when_integrated |-> w] :
        h \in Hashes,
        v \in {NULL, Some("Valid"), Some("Rejected")},
        w \in {NULL, Some(1)}}

\* the prefix of the 39 bytes of an AgentPubKey
AGENT_PREFIX == <<132, 32, 36>>

\* Action.author: the 39 bytes of the key of the author
RawAgent(a) == AGENT_PREFIX \o [i \in 1..36 |-> a]

\* AgentPubKey::try_from_raw_39
try_from_raw_39(raw) ==
    IF Len(raw) # 39 THEN Err(<<"BadSize">>)
    ELSE IF SubSeq(raw, 1, 3) # AGENT_PREFIX THEN Err(<<"BadPrefix">>)
    ELSE Ok([agent |-> raw[4]])

\* list_dht_agent_keys: select distinct author from Action inner join DhtOp
\* where Action.type = 'AgentValidationPkg' and DhtOp.validation_status = Valid
list_dht_agent_keys(actions, ops) ==
    {RawAgent(AuthorOf(r.action_hash)) :
        r \in {o \in ops : /\ o.action_hash \in actions
                           /\ TypOf(o.action_hash) = "AgentValidationPkg"
                           /\ o.validation_status = Some("Valid")}}

\* list_cache_agent_keys: select distinct author from Action
\* where Action.type = 'AgentValidationPkg'
list_cache_agent_keys(actions) ==
    {RawAgent(AuthorOf(h)) : h \in {a \in actions : TypOf(a) = "AgentValidationPkg"}}

\* list_discovered_agents has not returned
NoAgents == [tag |-> "None", value |-> <<>>]

AgentsInit ==
    /\ dht_op \in UpTo(MaxOps, AgentOpRows)
    /\ dht_action = Hashes
    /\ cache_action \in UpTo(MaxCache, Hashes)
    /\ agent_pub_key = 0
    /\ pc = "idle"
    /\ base = <<>>
    /\ chain = <<>>
    /\ cache_chain = <<>>
    /\ idx = 0
    /\ corrupt = {}
    /\ entry_rows = {}
    /\ pending = NoPending
    /\ apc = "dht"
    /\ dht_keys = {}
    /\ cache_keys = {}
    /\ agents_out = NoAgents

\* let mut loaded = list_dht_agent_keys(dht_conn)?.into_iter().collect::<HashSet<_>>()
ListDhtAgentKeys ==
    /\ apc = "dht"
    /\ dht_keys' = list_dht_agent_keys(dht_action, dht_op)
    /\ apc' = "cache"
    /\ UNCHANGED <<cache_keys, agents_out>>
    /\ UNCHANGED exceptAgents

\* let cache_loaded = list_cache_agent_keys(cache_conn)?.into_iter().collect::<HashSet<_>>()
ListCacheAgentKeys ==
    /\ apc = "cache"
    /\ cache_keys' = list_cache_agent_keys(cache_action)
    /\ apc' = "extend"
    /\ UNCHANGED <<dht_keys, agents_out>>
    /\ UNCHANGED exceptAgents

\* loaded.extend(cache_loaded); for v in loaded { out.push(try_from_raw_39(v)?) };
\* Ok(out)
ReturnAgents ==
    /\ apc = "extend"
    /\ \E loaded \in Orderings(dht_keys \cup cache_keys) :
          agents_out' = CollectResults([i \in 1..Len(loaded) |->
                                          try_from_raw_39(loaded[i])])
    /\ apc' = "done"
    /\ UNCHANGED <<dht_keys, cache_keys>>
    /\ UNCHANGED exceptAgents

AgentsNext == ListDhtAgentKeys \/ ListCacheAgentKeys \/ ReturnAgents

\* no agents are being listed
AgentsIdle ==
    /\ apc = "idle"
    /\ dht_keys = {}
    /\ cache_keys = {}
    /\ agents_out = NoAgents

\* ---------------------------------------------------------------------
\* Operations of a time slice (get_ops_in_slice)
\* ---------------------------------------------------------------------

\* the prefix of the 39 bytes of a DhtOpHash
DHTOP_PREFIX == <<132, 36, 36>>

\* DhtOp.hash: the 39 bytes of the hash of operation i
RawOp(i) == DHTOP_PREFIX \o [j \in 1..36 |-> i]

\* DhtOpHash::try_from_raw_39
DhtOpHash_try_from_raw_39(raw) ==
    IF Len(raw) # 39 THEN Err(<<"BadSize">>)
    ELSE IF SubSeq(raw, 1, 3) # DHTOP_PREFIX THEN Err(<<"BadPrefix">>)
    ELSE Ok([op |-> raw[4]])

Panic(e) == [tag |-> "Panic", value |-> <<>>, error |-> e]

\* DhtOpHash::from_raw_39, which returns the hash itself: it panics where
\* try_from_raw_39 returns an error
DhtOpHash_from_raw_39(raw) ==
    LET hash == DhtOpHash_try_from_raw_39(raw) IN
    IF hash.tag = "Err" THEN Panic(hash.error) ELSE hash

\* Option::unwrap
unwrap(opt) ==
    IF opt = NULL
    THEN Panic(<<"called Option::unwrap() on a None value">>)
    ELSE Ok(opt[1])

\* the hash column of the rows of the model: two hashes of operations, one
\* that lacks a byte and one with the prefix of an agent key
SliceHashColumn ==
    {RawOp(1), RawOp(2), SubSeq(RawOp(3), 1, 38), RawAgent(1)}

\* SizedOps: the rows of the query, storage_center_loc being a nullable column
SizedOps ==
    {[hash |-> h, storage_center_loc |-> l] :
        h \in SliceHashColumn, l \in {NULL, Some(7)}}

\* get_ops_in_slice has not returned
NoSliceResult == [tag |-> "None", value |-> <<>>]

\* get_ops_in_slice after its query returned rows, for a slice index whose time
\* bounds time_bounds_for_slice_index computes without overflow
SliceInit ==
    /\ slice_rows \in SeqsUpTo(MaxSliceRows, SizedOps)
    /\ spc = "print"
    /\ printed = 0
    /\ slice_result = NoSliceResult

\* one iteration of `for r in &rows`: the two arguments of println! are
\* evaluated in the order written
PrintSizedOp ==
    /\ spc = "print"
    /\ printed < Len(slice_rows)
    /\ LET r == slice_rows[printed + 1]
           hash == DhtOpHash_from_raw_39(r.hash)
           loc == unwrap(r.storage_center_loc)
       IN IF hash.tag = "Panic"
          THEN /\ slice_result' = hash
               /\ spc' = "panicked"
               /\ printed' = printed
          ELSE IF loc.tag = "Panic"
          THEN /\ slice_result' = loc
               /\ spc' = "panicked"
               /\ printed' = printed
          ELSE /\ printed' = printed + 1
               /\ UNCHANGED <<spc, slice_result>>
    /\ UNCHANGED slice_rows
    /\ UNCHANGED exceptSlice

\* Ok(rows.into_iter().map(|o| DhtOpHash::try_from_raw_39(o.hash))
\*     .collect::<Result<Vec<_>, _>>()?)
ReturnOpHashes ==
    /\ spc = "print"
    /\ printed = Len(slice_rows)
    /\ slice_result' =
          CollectResults([i \in 1..Len(slice_rows) |->
                             DhtOpHash_try_from_raw_39(slice_rows[i].hash)])
    /\ spc' = "done"
    /\ UNCHANGED <<slice_rows, printed>>
    /\ UNCHANGED exceptSlice

SliceNext == PrintSizedOp \/ ReturnOpHashes

\* no slice is being read
SliceIdle ==
    /\ slice_rows = <<>>
    /\ spc = "idle"
    /\ printed = 0
    /\ slice_result = NoSliceResult

\* ---------------------------------------------------------------------
\* App client (connect_app_client)
\* ---------------------------------------------------------------------

\* the arguments app_id and origin of the call
AppId == "app1"
Origin == "hc-ops"

\* AllowedOrigins: Any, or Origins(set)
AnyOrigin == [kind |-> "Any", origins |-> {}]
Origins(set) == [kind |-> "Origins", origins |-> set]

\* AllowedOrigins::is_allowed
is_allowed(allowed_origins, origin) ==
    allowed_origins.kind = "Any" \/ origin \in allowed_origins.origins

\* the closure of find that does not look at the app of the interface
Selectable_AnyApp(i, app_id, origin) == is_allowed(i.allowed_origins, origin)

\* the closure of app_interfaces.iter().find(..)
Selectable(i, app_id, origin) ==
    IF i.installed_app_id # NULL /\ i.installed_app_id[1] # app_id
    THEN FALSE
    ELSE IF ~is_allowed(i.allowed_origins, origin)
    THEN FALSE
    ELSE TRUE

\* Iterator::find: the first element selected, if any
find_interface(listed, app_id, origin) ==
    LET found == {k \in 1..Len(listed) : Selectable(listed[k], app_id, origin)} IN
    IF found = {} THEN NULL ELSE Some(listed[SetMin(found)])

\* AppInterfaceInfo without its port
InterfaceKinds ==
    {[installed_app_id |-> a, allowed_origins |-> o] :
        a \in {NULL, Some("app1"), Some("app2")},
        o \in {AnyOrigin, Origins({"hc-ops"}), Origins({"other"})}}

\* the port of the k-th interface listed
ListedPort(k) == 30000 + k

\* the port the conductor gives an interface attached with port 0
AttachedPort == 40000

\* the lists of app interfaces of the conductor
InterfaceLists ==
    {[k \in 1..Len(kinds) |->
         [port |-> ListedPort(k),
          installed_app_id |-> kinds[k].installed_app_id,
          allowed_origins |-> kinds[k].allowed_origins]] :
        kinds \in SeqsUpTo(MaxInterfaces, InterfaceKinds)}

\* connect_app_client has not returned
NoAppClient == [tag |-> "None", value |-> <<>>]

AppInit ==
    /\ app_interfaces \in InterfaceLists
    /\ cpc = "list"
    /\ use_port = NULL
    /\ attached = NULL
    /\ token_response = NULL
    /\ app_client = NoAppClient
    /\ admin_calls = <<>>

\* this.list_app_interfaces().await.map_err(HcOpsError::client)?, then the
\* find and, for an interface found, `Some(i) => i.port`
ListAppInterfaces ==
    /\ cpc = "list"
    /\ admin_calls' = Append(admin_calls, "list_app_interfaces")
    /\ \E response \in {"Ok", "Err"} :
          IF response = "Err"
          THEN /\ app_client' = Err(<<"ClientError", "list_app_interfaces">>)
               /\ cpc' = "error"
               /\ use_port' = use_port
          ELSE LET selected_interface == find_interface(app_interfaces, AppId, Origin) IN
               /\ app_client' = app_client
               /\ IF selected_interface # NULL
                  THEN /\ use_port' = Some(selected_interface[1].port)
                       /\ cpc' = "token"
                  ELSE /\ use_port' = use_port
                       /\ cpc' = "attach"
    /\ UNCHANGED <<app_interfaces, attached, token_response>>
    /\ UNCHANGED exceptApp

\* None => this.attach_app_interface(0, None, origin, None).await.map_err(..)?
AttachAppInterface ==
    /\ cpc = "attach"
    /\ admin_calls' = Append(admin_calls, "attach_app_interface")
    /\ \E response \in {"Ok", "Err"} :
          IF response = "Err"
          THEN /\ app_client' = Err(<<"ClientError", "attach_app_interface">>)
               /\ cpc' = "error"
               /\ UNCHANGED <<use_port, attached>>
          ELSE /\ attached' = Some(AttachedPort)
               /\ use_port' = Some(AttachedPort)
               /\ cpc' = "token"
               /\ app_client' = app_client
    /\ UNCHANGED <<app_interfaces, token_response>>
    /\ UNCHANGED exceptApp

\* this.issue_app_auth_token(for_installed_app_id(app_id)).await.map_err(..)?
IssueAppAuthToken ==
    /\ cpc = "token"
    /\ admin_calls' = Append(admin_calls, "issue_app_auth_token")
    /\ \E response \in {"Ok", "Err"} :
          IF response = "Err"
          THEN /\ app_client' = Err(<<"ClientError", "issue_app_auth_token">>)
               /\ cpc' = "error"
               /\ token_response' = token_response
          ELSE /\ token_response' = Some([installed_app_id |-> AppId])
               /\ cpc' = "connect"
               /\ app_client' = app_client
    /\ UNCHANGED <<app_interfaces, use_port, attached>>
    /\ UNCHANGED exceptApp

\* AppWebsocket::connect((addr, use_port), token, signer, Some(origin)).await
\*     .map_err(..)?; Ok(app_client)
ConnectAppWebsocket ==
    /\ cpc = "connect"
    /\ admin_calls' = Append(admin_calls, "connect")
    /\ \E response \in {"Ok", "Err"} :
          IF response = "Err"
          THEN /\ app_client' = Err(<<"Could not connect app interface">>)
               /\ cpc' = "error"
          ELSE /\ app_client' = Ok([port |-> use_port[1],
                                    token |-> token_response[1],
                                    origin |-> Origin])
               /\ cpc' = "done"
    /\ UNCHANGED <<app_interfaces, use_port, attached, token_response>>
    /\ UNCHANGED exceptApp

AppNext ==
    ListAppInterfaces \/ AttachAppInterface \/ IssueAppAuthToken \/ ConnectAppWebsocket

\* ---------------------------------------------------------------------
\* discover_admin_addr and test_admin_port: the search for the admin port

\* number of ports given to discover_admin_addr
MaxPorts == 2

\* number of messages the receive loop gets before the request is answered
MaxMessages == 1

PortNumbers == 1..MaxPorts

\* for addr in [ipv6_addr, ipv4_addr]
Addrs == <<"ipv6", "ipv4">>

SocketAddr(ip, port) == [ip |-> ip, port |-> port]

\* the address under test
TestedAddr == SocketAddr(Addrs[addr_no], ports[port_no])

\* a send that delivers nothing
oneshot_send_Lost(channel, receiver_dropped) == channel

\* oneshot::Sender::send(v).ok(): the value is delivered unless the receiver
\* has been dropped, and the failure to deliver is ignored
oneshot_send(channel, receiver_dropped) ==
    IF receiver_dropped THEN channel ELSE "sent"

\* the drop of a oneshot::Sender at the end of the async block that owns it:
\* a receiver that was sent nothing resolves to Canceled
oneshot_drop(channel) ==
    IF channel = "open" THEN "canceled" ELSE channel

\* a oneshot::Receiver is ready
oneshot_ready(channel) == channel # "open"

\* an address accepted whatever the receive loop saw
Accept_RequestOnly(a, b) == a

\* if res_ok && recv_ok
Accept(a, b) == a /\ b

NoAddr == [tag |-> "None", value |-> <<>>]

ProbeInit ==
    /\ ports \in SeqsUpTo(MaxPorts, PortNumbers)
    /\ jpc = "start"
    /\ port_no = 0
    /\ addr_no = 0
    /\ reqh = "idle"
    /\ recvh = "idle"
    /\ req_done = "open"
    /\ recv_done = "open"
    /\ res_ok = NULL
    /\ recv_ok = NULL
    /\ req_result = NULL
    /\ received = <<>>
    /\ probed = <<>>
    /\ admin_addr = NoAddr

\* for port in ports: the first port, or Ok(None) when there is none
DiscoverAdminAddr ==
    /\ jpc = "start"
    /\ IF ports = <<>>
       THEN /\ jpc' = "done"
            /\ admin_addr' = Ok(NULL)
            /\ UNCHANGED <<port_no, addr_no>>
       ELSE /\ jpc' = "connect"
            /\ port_no' = 1
            /\ addr_no' = 1
            /\ admin_addr' = admin_addr
    /\ UNCHANGED <<ports, reqh, recvh, req_done, recv_done, res_ok, recv_ok,
                   req_result, received, probed>>
    /\ UNCHANGED exceptProbe

\* the address under test is not accepted: the next address of the port, the
\* next port when test_admin_port returns None, Ok(None) after the last port
NextAddr ==
    /\ probed' = Append(probed, [addr |-> TestedAddr, accepted |-> FALSE])
    /\ IF addr_no < Len(Addrs)
       THEN /\ addr_no' = addr_no + 1
            /\ jpc' = "connect"
            /\ UNCHANGED <<port_no, admin_addr>>
       ELSE IF port_no < Len(ports)
            THEN /\ port_no' = port_no + 1
                 /\ addr_no' = 1
                 /\ jpc' = "connect"
                 /\ admin_addr' = admin_addr
            ELSE /\ jpc' = "done"
                 /\ admin_addr' = Ok(NULL)
                 /\ UNCHANGED <<port_no, addr_no>>

\* if let Ok((tx, mut rx)) = holochain_websocket::connect(cfg, req).await:
\* the request is made, the two channels are created and the join starts
Connect ==
    /\ jpc = "connect"
    /\ \E connected \in BOOLEAN :
        IF connected
        THEN /\ jpc' = "join"
             /\ reqh' = "select"
             /\ recvh' = "loop"
             /\ req_done' = "open"
             /\ recv_done' = "open"
             /\ res_ok' = NULL
             /\ recv_ok' = NULL
             /\ req_result' = NULL
             /\ received' = <<>>
             /\ UNCHANGED <<port_no, addr_no, probed, admin_addr>>
        ELSE /\ NextAddr
             /\ UNCHANGED <<reqh, recvh, req_done, recv_done, res_ok, recv_ok,
                            req_result, received>>
    /\ UNCHANGED ports
    /\ UNCHANGED exceptProbe

\* the request half, res = req.fuse(): the request is answered or times out
\* (default_request_timeout is one second), req_done is sent
RequestCompletes ==
    /\ jpc = "join"
    /\ reqh = "select"
    /\ \E res \in {"Ok", "Err"} :
        /\ req_result' = Some(res)
        /\ res_ok' = Some(res = "Ok")
    /\ req_done' = oneshot_send(req_done, recvh = "done")
    /\ reqh' = "done"
    /\ UNCHANGED <<ports, jpc, port_no, addr_no, recvh, recv_done, recv_ok,
                   received, probed, admin_addr>>
    /\ UNCHANGED exceptProbe

\* the request half, _ = recv_done_rx => false: the request is dropped, and
\* so is req_done_tx
RequestCancelled ==
    /\ jpc = "join"
    /\ reqh = "select"
    /\ oneshot_ready(recv_done)
    /\ res_ok' = Some(FALSE)
    /\ req_done' = oneshot_drop(req_done)
    /\ reqh' = "done"
    /\ UNCHANGED <<ports, jpc, port_no, addr_no, recvh, recv_done, recv_ok,
                   req_result, received, probed, admin_addr>>
    /\ UNCHANGED exceptProbe

\* the receive loop, res = rx.recv().fuse() with res.is_ok(): the loop goes on
ReceiveMessage ==
    /\ jpc = "join"
    /\ recvh = "loop"
    /\ Len(received) < MaxMessages
    /\ received' = Append(received, "Ok")
    /\ UNCHANGED <<ports, jpc, port_no, addr_no, reqh, recvh, req_done,
                   recv_done, res_ok, recv_ok, req_result, probed, admin_addr>>
    /\ UNCHANGED exceptProbe

\* the receive loop, res = rx.recv().fuse() with res.is_err(): false is sent
\* on recv_done and returned
ReceiveError ==
    /\ jpc = "join"
    /\ recvh = "loop"
    /\ received' = Append(received, "Err")
    /\ recv_done' = oneshot_send(recv_done, reqh = "done")
    /\ recv_ok' = Some(FALSE)
    /\ recvh' = "done"
    /\ UNCHANGED <<ports, jpc, port_no, addr_no, reqh, req_done, res_ok,
                   req_result, probed, admin_addr>>
    /\ UNCHANGED exceptProbe

\* the receive loop, _ = req_done_rx => break: true is returned, and
\* recv_done_tx is dropped
ReceiveStopped ==
    /\ jpc = "join"
    /\ recvh = "loop"
    /\ oneshot_ready(req_done)
    /\ recv_done' = oneshot_drop(recv_done)
    /\ recv_ok' = Some(TRUE)
    /\ recvh' = "done"
    /\ UNCHANGED <<ports, jpc, port_no, addr_no, reqh, req_done, res_ok,
                   req_result, received, probed, admin_addr>>
    /\ UNCHANGED exceptProbe

\* futures::join! has both outputs: if res_ok && recv_ok { return Some(addr) },
\* which discover_admin_addr returns as Ok(Some(out))
Joined ==
    /\ jpc = "join"
    /\ reqh = "done"
    /\ recvh = "done"
    /\ IF Accept(res_ok[1], recv_ok[1])
       THEN /\ probed' = Append(probed, [addr |-> TestedAddr, accepted |-> TRUE])
            /\ admin_addr' = Ok(Some(TestedAddr))
            /\ jpc' = "done"
            /\ UNCHANGED <<port_no, addr_no>>
       ELSE NextAddr
    /\ UNCHANGED <<ports, reqh, recvh, req_done, recv_done, res_ok, recv_ok,
                   req_result, received>>
    /\ UNCHANGED exceptProbe

ProbeNext ==
    \/ DiscoverAdminAddr
    \/ Connect
    \/ RequestCompletes
    \/ RequestCancelled
    \/ ReceiveMessage
    \/ ReceiveError
    \/ ReceiveStopped
    \/ Joined

\* no admin port is being searched for
ProbeIdle ==
    /\ ports = <<>>
    /\ jpc = "idle"
    /\ port_no = 0
    /\ addr_no = 0
    /\ reqh = "idle"
    /\ recvh = "idle"
    /\ req_done = "open"
    /\ recv_done = "open"
    /\ res_ok = NULL
    /\ recv_ok = NULL
    /\ req_result = NULL
    /\ received = <<>>
    /\ probed = <<>>
    /\ admin_addr = NoAddr

\* no app client is being connected
AppIdle ==
    /\ app_interfaces = <<>>
    /\ cpc = "idle"
    /\ use_port = NULL
    /\ attached = NULL
    /\ token_response = NULL
    /\ app_client = NoAppClient
    /\ admin_calls = <<>>

\* no chain is being read
ChainIdle ==
    /\ dht_op = {}
    /\ dht_action = {}
    /\ cache_action = {}
    /\ agent_pub_key = 0
    /\ pc = "idle"
    /\ base = <<>>
    /\ chain = <<>>
    /\ cache_chain = <<>>
    /\ idx = 0
    /\ corrupt = {}
    /\ entry_rows = {}
    /\ pending = NoPending

vars == <<diffVars, timeVars, chainVars, keyVars,
          parseVars, cellVars, dumpVars, agentVars,
          sliceVars, appVars, probeVars>>

\* the chain reconstruction
Init == ChainInit /\ DiffIdle /\ TimeIdle /\ KeyIdle /\ ParseIdle /\ CellIdle /\ DumpIdle
    /\ AgentsIdle
    /\ SliceIdle
    /\ AppIdle
    /\ ProbeIdle

Next == ChainNext

Spec == Init /\ [][Next]_vars

\* the slice-hash comparison
InitDiff == DiffInit /\ ChainIdle /\ TimeIdle /\ KeyIdle /\ ParseIdle /\ CellIdle /\ DumpIdle
    /\ AgentsIdle
    /\ SliceIdle
    /\ AppIdle
    /\ ProbeIdle

NextDiff == DiffNext

SpecDiff == InitDiff /\ [][NextDiff]_vars

\* the time partition
InitTime == TimeInit /\ ChainIdle /\ DiffIdle /\ KeyIdle /\ ParseIdle /\ CellIdle /\ DumpIdle
    /\ AgentsIdle
    /\ SliceIdle
    /\ AppIdle
    /\ ProbeIdle

NextTime == TimeNext

SpecTime == InitTime /\ [][NextTime]_vars

\* the explorer and the database key
InitExplore == ExploreInit /\ ChainIdle /\ DiffIdle /\ TimeIdle /\ ParseIdle /\ CellIdle /\ DumpIdle
    /\ AgentsIdle
    /\ SliceIdle
    /\ AppIdle
    /\ ProbeIdle

NextExplore == ExploreNext

SpecExplore == InitExplore /\ [][NextExplore]_vars

\* the dump parser
InitParse == ParseInit /\ ChainIdle /\ DiffIdle /\ TimeIdle /\ KeyIdle /\ CellIdle /\ DumpIdle
    /\ AgentsIdle
    /\ SliceIdle
    /\ AppIdle
    /\ ProbeIdle

NextParse == ParseNext

SpecParse == InitParse /\ [][NextParse]_vars

\* cell initialisation
InitCell == CellInit /\ ChainIdle /\ DiffIdle /\ TimeIdle /\ KeyIdle /\ ParseIdle /\ DumpIdle
    /\ AgentsIdle
    /\ SliceIdle
    /\ AppIdle
    /\ ProbeIdle

NextCell == CellNext

SpecCell == InitCell /\ [][NextCell]_vars

\* the bulk reads
InitDump ==
    DumpInit /\ ChainIdle /\ DiffIdle /\ TimeIdle /\ KeyIdle /\ ParseIdle /\ CellIdle
    /\ AgentsIdle
    /\ SliceIdle
    /\ AppIdle
    /\ ProbeIdle

NextDump == DumpNext

SpecDump == InitDump /\ [][NextDump]_vars

\* the operations of a time slice
InitSlice ==
    SliceInit /\ ChainIdle /\ DiffIdle /\ TimeIdle /\ KeyIdle /\ ParseIdle /\ CellIdle
    /\ DumpIdle /\ AgentsIdle
    /\ AppIdle
    /\ ProbeIdle

NextSlice == SliceNext

SpecSlice == InitSlice /\ [][NextSlice]_vars

\* the connection of an app client
InitApp ==
    AppInit /\ ChainIdle /\ DiffIdle /\ TimeIdle /\ KeyIdle /\ ParseIdle /\ CellIdle
    /\ DumpIdle /\ AgentsIdle /\ SliceIdle
    /\ ProbeIdle

NextApp == AppNext

SpecApp == InitApp /\ [][NextApp]_vars

\* discover_admin_addr on any list of ports
InitProbe ==
    ProbeInit /\ ChainIdle /\ DiffIdle /\ TimeIdle /\ KeyIdle /\ ParseIdle /\ CellIdle
    /\ DumpIdle /\ AgentsIdle /\ SliceIdle /\ AppIdle

NextProbe == ProbeNext

SpecProbe == InitProbe /\ [][NextProbe]_vars

\* the join polls a half whenever one of its futures is ready: the request
\* is answered or times out after default_request_timeout, and a resolved
\* oneshot receiver wakes the half that selects on it
SpecProbeFair ==
    /\ SpecProbe
    /\ WF_vars(RequestCompletes)
    /\ WF_vars(ReceiveStopped)

\* merge_into_chain on any chain
InitMerge ==
    MergeInit /\ DiffIdle /\ TimeIdle /\ KeyIdle /\ ParseIdle /\ CellIdle /\ DumpIdle
    /\ AgentsIdle
    /\ SliceIdle
    /\ AppIdle
    /\ ProbeIdle

NextMerge == MergeLoopNext

SpecMerge == InitMerge /\ [][NextMerge]_vars

\* the reads of a store with a damaged blob
InitDecode ==
    DecodeInit /\ DiffIdle /\ TimeIdle /\ KeyIdle /\ ParseIdle /\ CellIdle /\ DumpIdle
    /\ AgentsIdle
    /\ SliceIdle
    /\ AppIdle
    /\ ProbeIdle

NextDecode == DecodeNext

SpecDecode == InitDecode /\ [][NextDecode]_vars

\* the listing of the agents of the two stores
InitAgents ==
    AgentsInit /\ DiffIdle /\ TimeIdle /\ KeyIdle /\ ParseIdle /\ CellIdle /\ DumpIdle
    /\ SliceIdle
    /\ AppIdle
    /\ ProbeIdle

NextAgents == AgentsNext

SpecAgents == InitAgents /\ [][NextAgents]_vars

\* ---------------------------------------------------------------------
\* Properties of the chain reconstruction
\* ---------------------------------------------------------------------

HashesIn(c) == {c[i].hash : i \in 1..Len(c)}
SeqsIn(c) == {c[i].seq : i \in 1..Len(c)}
StrictlyIncreasing(c) == \A i, j \in 1..Len(c) : i < j => c[i].seq < c[j].seq
NonDecreasing(c) == \A i, j \in 1..Len(c) : i < j => c[i].seq <= c[j].seq

\* the step taken is one call of merge_into_chain(chain, cache_chain[idx + 1])
IsMergeStep == pc = "merge" /\ idx < Len(cache_chain) /\ idx' = idx + 1

\* C1: merging a record whose action hash and sequence number are both absent
\* from a strictly increasing chain puts it immediately before the first
\* record with a greater sequence number, or at the end when there is none;
\* the chain grows by one and is strictly increasing again.
C1_MergeOrdering ==
    [][LET record == cache_chain[idx + 1]
           greater == {i \in 1..Len(chain) : chain[i].seq > record.seq}
           pos == IF greater = {} THEN Len(chain) + 1 ELSE SetMin(greater)
       IN  (/\ IsMergeStep
            /\ StrictlyIncreasing(chain)
            /\ record.hash \notin HashesIn(chain)
            /\ record.seq \notin SeqsIn(chain))
           => /\ Len(chain') = Len(chain) + 1
              /\ chain'[pos] = record
              /\ RemoveAt(chain', pos) = chain
              /\ StrictlyIncreasing(chain')]_vars

\* a record with a new hash and a new sequence number has been merged
\* between a smaller and a greater record of a strictly increasing base chain
C1_Witness ==
    /\ pc = "merge"
    /\ idx = 1
    /\ StrictlyIncreasing(base)
    /\ cache_chain[1].hash \notin HashesIn(base)
    /\ cache_chain[1].seq \notin SeqsIn(base)
    /\ Len(base) = 2
    /\ base[1].seq < cache_chain[1].seq
    /\ base[2].seq > cache_chain[1].seq
    /\ chain = <<base[1], cache_chain[1], base[2]>>

\* C2: merging a record whose action hash is already in the chain leaves the
\* chain exactly as it was.
C2_DuplicateSkipped ==
    [][(IsMergeStep /\ cache_chain[idx + 1].hash \in HashesIn(chain))
       => chain' = chain]_vars

\* a cache record whose hash is in the base chain has been merged
C2_Witness ==
    /\ pc = "merge"
    /\ idx = 1
    /\ Len(base) >= 2
    /\ cache_chain[1].hash \in HashesIn(base)
    /\ chain = base

\* C3: a record with a new action hash whose sequence number equals that of
\* records of the chain is kept, after every record with an equal or smaller
\* sequence number and before every record with a greater one.
C3_SameSeqDifferentHash ==
    [][LET record == cache_chain[idx + 1] IN
       (/\ IsMergeStep
        /\ record.hash \notin HashesIn(chain)
        /\ record.seq \in SeqsIn(chain))
       => /\ Len(chain') = Len(chain) + 1
          /\ \E p \in 1..Len(chain') :
                /\ chain'[p] = record
                /\ RemoveAt(chain', p) = chain
                /\ \A i \in 1..(p - 1) : chain'[i].seq <= record.seq
                /\ \A i \in (p + 1)..Len(chain') : chain'[i].seq > record.seq]_vars

\* a record with a new hash has been merged right after a record of the same
\* sequence number and right before a record with a greater one
C3_Witness ==
    /\ pc = "merge"
    /\ idx = 1
    /\ cache_chain[1].hash \notin HashesIn(base)
    /\ Len(chain) = Len(base) + 1
    /\ \E p \in 2..(Len(chain) - 1) :
          /\ chain[p] = cache_chain[1]
          /\ chain[p - 1].seq = chain[p].seq
          /\ chain[p + 1].seq > chain[p].seq

\* the cache store holds no action of the agent
CacheYieldsNothing == \A h \in cache_action : AuthorOf(h) # agent_pub_key

\* C4: when the cache store yields no record for the agent, get_agent_chain
\* returns the base chain read from the shared ledger, unchanged.
C4_EmptyCacheIdempotent ==
    (pc = "done" /\ (CacheYieldsNothing \/ cache_chain = <<>>)) => chain = base

\* a non-empty base chain has been returned while the cache store holds
\* only rows of another agent
C4_Witness ==
    /\ pc = "done"
    /\ CacheYieldsNothing
    /\ cache_action # {}
    /\ Len(base) >= 2
    /\ chain = base

\* C5: no two records of the chain returned by get_agent_chain have the same
\* action hash.
C5_DuplicateFree ==
    pc = "done" => \A i, j \in 1..Len(chain) : i # j => chain[i].hash # chain[j].hash

\* C6 as stated, for a base chain that is itself strictly increasing (the
\* shared ledger holds one integrated row per sequence number, so no duplicate
\* of C5 is involved): the sequence numbers of the returned chain are unique
\* and strictly increasing in chain order.
C6_StrictlyIncreasing ==
    (pc = "done" /\ StrictlyIncreasing(base)) => StrictlyIncreasing(chain)

\* C6, amended: the sequence numbers of the returned chain never decrease in
\* chain order (records with equal sequence numbers are next to each other).
C6_NonDecreasing == pc = "done" => NonDecreasing(chain)

\* a chain has been returned in which a cache record stands next to a record
\* of the same sequence number and a different hash
C6_Witness ==
    /\ pc = "done"
    /\ idx >= 1
    /\ Len(chain) >= 3
    /\ \E i \in 1..(Len(chain) - 1) :
          /\ chain[i].seq = chain[i + 1].seq
          /\ chain[i].hash # chain[i + 1].hash
          /\ chain[i + 1] \in Range(cache_chain)
          /\ chain[i + 1].hash \notin HashesIn(base)


\* ---------------------------------------------------------------------
\* Properties of the slice-hash comparison
\* ---------------------------------------------------------------------

\* the (coverage range, slice index) of the rows of a table with a given label
RowsLabelled(table, label) ==
    {<<table[i].dht_arc, table[i].slice_index>> :
        i \in {j \in 1..Len(table) : table[j].diff = <<label>>}}

\* the (coverage range, slice index, our digest, their digest) of the rows
\* that report different hashes
RowsDifferent(table) ==
    {<<table[i].dht_arc, table[i].slice_index, table[i].diff[2], table[i].diff[4]>> :
        i \in {j \in 1..Len(table) : Len(table[j].diff) = 4}}

\* C8: the keys reported "only in our file" by the comparison of (a, b) are
\* those reported "only in their file" by the comparison of (b, a), and the
\* other way round; the keys reported with different hashes are the same in
\* both directions, with the two digests exchanged.
C8_DiffSymmetry ==
    Len(reports) = 2 =>
        /\ RowsLabelled(reports[1].table, "Only in our file")
              = RowsLabelled(reports[2].table, "Only in their file")
        /\ RowsLabelled(reports[1].table, "Only in their file")
              = RowsLabelled(reports[2].table, "Only in our file")
        /\ RowsDifferent(reports[1].table)
              = {<<r[1], r[2], r[4], r[3]>> : r \in RowsDifferent(reports[2].table)}

\* both comparisons are done and the first reported a key of each kind
C8_Witness ==
    /\ Len(reports) = 2
    /\ RowsLabelled(reports[1].table, "Only in our file") # {}
    /\ RowsLabelled(reports[1].table, "Only in their file") # {}
    /\ RowsDifferent(reports[1].table) # {}
    /\ RowsLabelled(reports[2].table, "Only in their file") # {}

\* the key of a record, and the digests a capture holds for a key
KeyOf(oh) == <<oh.arc_start, oh.arc_end, oh.slice_index>>
DigestsFor(hashes, k) ==
    {hashes[i].hash : i \in {j \in 1..Len(hashes) : KeyOf(hashes[j]) = k}}

\* the rows of diff_table about a key
RowsFor(k) ==
    {i \in 1..Len(diff_table) :
        /\ diff_table[i].dht_arc = Decimal(k[1]) \o <<".", ".">> \o Decimal(k[2])
        /\ diff_table[i].slice_index = k[3]}

\* the standard base64 text of the digests of the model
ExpectedBase64(h) == IF h = <<1>> THEN <<"A", "Q", "=", "=">> ELSE <<"A", "Q", "A", "=">>

\* C9: for a key that each capture holds with one digest, the table has
\* exactly one row when the two digests differ, with our digest and then
\* their digest in base64, and no row when they are identical.
C9_MismatchDetection ==
    dpc = "done" =>
        \A k \in CaptureKeys : \A x, y \in CaptureDigests :
            (DigestsFor(our_hashes, k) = {x} /\ DigestsFor(their_hashes, k) = {y})
            => IF x # y
               THEN /\ Cardinality(RowsFor(k)) = 1
                    /\ \A i \in RowsFor(k) :
                          diff_table[i].diff =
                              <<"Different hashes: our hash = ", ExpectedBase64(x),
                                ", their hash = ", ExpectedBase64(y)>>
               ELSE RowsFor(k) = {}

\* a comparison is done of two captures that hold one key with different
\* digests and another key with the same digest
C9_Witness ==
    /\ dpc = "done"
    /\ \E k1, k2 \in CaptureKeys : \E x, y \in CaptureDigests :
          /\ k1 # k2
          /\ x # y
          /\ DigestsFor(our_hashes, k1) = {x}
          /\ DigestsFor(their_hashes, k1) = {y}
          /\ DigestsFor(our_hashes, k2) = {x}
          /\ DigestsFor(their_hashes, k2) = {x}
          /\ Cardinality(RowsFor(k1)) = 1
          /\ RowsFor(k2) = {}

\* every record of each capture has a record with the same key and the same
\* digest in the other capture
Consistent(ours, theirs) ==
    /\ \A i \in 1..Len(ours) : \E j \in 1..Len(theirs) :
          KeyOf(ours[i]) = KeyOf(theirs[j]) /\ ours[i].hash = theirs[j].hash
    /\ \A j \in 1..Len(theirs) : \E i \in 1..Len(ours) :
          KeyOf(ours[i]) = KeyOf(theirs[j]) /\ ours[i].hash = theirs[j].hash

\* C10: "No differences" is printed exactly when the two captures are
\* consistent, also when a capture holds several records with one key.
C10_EmptyDiffMeansConsistent ==
    \A n \in 1..Len(reports) :
        (reports[n].stdout = "No differences found between the two files.")
            <=> Consistent(reports[n].our, reports[n].their)

\* ---------------------------------------------------------------------
\* Properties of the time partition
\* ---------------------------------------------------------------------

\* origin + n * full_slice_duration in microseconds, computed without any
\* limit of width (a u128 holds it for every u64 n)
ExactSliceStart(n) ==
    MulBytes(MulBytes(Extend(n, 16), (2^9) * UNIT_TIME, 0), 1000000, 0)

\* the timestamp ts is the number a, exactly
IsExactly(ts, a) == ~ExceedsU64(a) /\ ~IsNegative(Low64(a)) /\ ts = Low64(a)

NextIndex(n) == AddBytes(Extend(n, 16), ToBytes(1, 16), 0)

\* both calls returned, slice n starts at origin + n * full_slice_duration and
\* ends one full slice later, slice n + 1 starts where slice n ends, and
\* slice 0 starts at the origin
SliceBoundsJoin ==
    /\ tpc = "done"
    /\ IsExactly(bounds_n.start, ExactSliceStart(slice_index))
    /\ IsExactly(bounds_n.end, ExactSliceStart(NextIndex(slice_index)))
    /\ bounds_n1.start = bounds_n.end
    /\ IsExactly(bounds_n1.end, ExactSliceStart(NextIndex(NextIndex(slice_index))))
    /\ (slice_index = ToBytes(0, 8) => bounds_n.start = UNIX_TIMESTAMP)

EndOfNextFitsI64(n) ==
    LET e == ExactSliceStart(NextIndex(NextIndex(n))) IN
    ~ExceedsU64(e) /\ ~IsNegative(Low64(e))

KeysIn(hashes) == {KeyOf(hashes[i]) : i \in 1..Len(hashes)}

\* the labels of the rows of diff_table about a key
LabelsFor(k) == {diff_table[i].diff[1] : i \in RowsFor(k)}

\* all rows have been pushed
TableComplete == dpc \in {"report", "done"}

\* C18: every key that occurs in exactly one of the two captures has exactly
\* one row in the table, labelled "Only in our file" when it occurs in our
\* file and "Only in their file" when it occurs in their file; no key has
\* rows with more than one label, and every row is about a key that occurs in
\* one of the captures.
C18_DiffClassification ==
    TableComplete =>
        /\ \A k \in KeysIn(our_hashes) \ KeysIn(their_hashes) :
              /\ Cardinality(RowsFor(k)) = 1
              /\ LabelsFor(k) = {"Only in our file"}
        /\ \A k \in KeysIn(their_hashes) \ KeysIn(our_hashes) :
              /\ Cardinality(RowsFor(k)) = 1
              /\ LabelsFor(k) = {"Only in their file"}
        /\ \A k \in CaptureKeys : Cardinality(LabelsFor(k)) <= 1
        /\ \A i \in 1..Len(diff_table) :
              \E k \in KeysIn(our_hashes) \cup KeysIn(their_hashes) : i \in RowsFor(k)

\* a finished comparison with a key on each side only, one of them held by
\* two records of its capture
C18_Witness ==
    /\ dpc = "done"
    /\ KeysIn(our_hashes) \ KeysIn(their_hashes) # {}
    /\ KeysIn(their_hashes) \ KeysIn(our_hashes) # {}
    /\ Len(our_hashes) > Cardinality(KeysIn(our_hashes))
    /\ Len(diff_table) = 2

\* ---------------------------------------------------------------------
\* Claims about the database key and the explorer
\* ---------------------------------------------------------------------

\* load_database_key has returned (or panicked)
KeyLoadReturned == load_tag # ""

\* the key file is the well-formed one of another passphrase than the typed one
WrongPassphrase ==
    \E q \in Passphrases : q # passphrase /\ key_file = WellFormedKeyFile(q)

\* C11: Key::load with a passphrase that does not match a well-formed key
\* blob returns the error "Failed to decrypt key" and no Key, after a single
\* derivation that is never run again.
C11_WrongPassphraseFails ==
    (KeyLoadReturned /\ WrongPassphrase) =>
        /\ load_tag = "Err"
        /\ error = "Failed to decrypt key"
        /\ key = NULL
        /\ derivations = 1
        /\ epc = "error"

C11_Witness ==
    /\ KeyLoadReturned
    /\ WrongPassphrase
    /\ error = "Failed to decrypt key"

\* C12: when db.key does not exist load_database_key returns Ok(None)
\* without deriving a key; a key or an error comes only from a file that
\* exists.
C12_MissingKeyFileIsNoKey ==
    /\ (KeyLoadReturned /\ ~key_file.exists) =>
            (load_tag = "Ok" /\ key = NULL /\ derivations = 0)
    /\ (KeyLoadReturned /\ (key # NULL \/ load_tag # "Ok")) => key_file.exists

C12_Witness ==
    /\ KeyLoadReturned
    /\ ~key_file.exists
    /\ epc = "list_apps"

\* the decoded content of the key file is shorter than a key blob
ShortBlob ==
    /\ key_file.exists
    /\ key_file.utf8
    /\ Base64UrlDecode(key_file.text) # NULL
    /\ Len(Base64UrlDecode(key_file.text)[1]) < KeyBlobLen

\* the key file is not base64, or its decoded content is not a key blob
\* sealed under any passphrase
CorruptBlobFile ==
    /\ key_file.exists
    /\ key_file.utf8
    /\ \/ Base64UrlDecode(key_file.text) = NULL
       \/ /\ Len(Base64UrlDecode(key_file.text)[1]) >= KeyBlobLen
          /\ \A q \in Passphrases :
                SubSeq(Base64UrlDecode(key_file.text)[1], 1, KeyBlobLen) # KeyBlob(q)

\* C13: Key::load on a key file whose decoded content is corrupt or shorter
\* than nonce + tag + key + salt returns an error as a typed result, without
\* aborting the process, and returns no key.
C13_MalformedBlobIsTypedError ==
    (KeyLoadReturned /\ (ShortBlob \/ CorruptBlobFile)) =>
        (load_tag = "Err" /\ key = NULL)

\* C17 as stated: once a store has been opened, the passphrase was prompted
\* for exactly once and the key derived exactly once.
C17_DerivedExactlyOnce ==
    /\ prompts <= 1
    /\ derivations <= 1
    /\ opens > 0 => (prompts = 1 /\ derivations = 1)

\* C17, amended: during one explore invocation the passphrase is prompted for
\* at most once and the key derived at most once, both before any store is
\* opened; a store is opened only after the one prompt and after
\* load_database_key returned Ok, having derived the key exactly once when
\* the key file exists and not at all when it does not; when
\* load_database_key fails the explorer ends with that error, no store is
\* opened and there is no second prompt.
C17_DerivedAtMostOnce ==
    /\ prompts <= 1
    /\ derivations <= 1
    /\ ~KeyLoadReturned => (opens = 0 /\ derivations = 0)
    /\ opens > 0 =>
            /\ prompts = 1
            /\ load_tag = "Ok"
            /\ derivations = (IF key_file.exists THEN 1 ELSE 0)
    /\ load_tag \in {"Err", "Panic"} =>
            /\ opens = 0
            /\ prompts = 1
            /\ epc \in {"error", "panic"}
            /\ key = NULL

\* the stores have been opened twice, with the key derived once
C17_Witness ==
    /\ opens > Len(StoreKinds)
    /\ prompts = 1
    /\ derivations = 1
    /\ key # NULL

\* ---------------------------------------------------------------------
\* Claims about the dump parser
\* ---------------------------------------------------------------------

\* the decimal digits of u32::MAX and of u64::MAX
U32MaxDigits == <<"4", "2", "9", "4", "9", "6", "7", "2", "9", "5">>
U64MaxDigits ==
    <<"1", "8", "4", "4", "6", "7", "4", "4", "0", "7", "3", "7", "0", "9", "5", "5",
      "1", "6", "1", "5">>

\* a string of digits without its leading zeros
RECURSIVE StripZeros(_)
StripZeros(ds) ==
    IF Len(ds) > 1 /\ Head(ds) = "0" THEN StripZeros(Tail(ds)) ELSE ds

\* ds is a non-empty string of digits that names a number not above the one
\* named by max
NamesAtMost(ds, max) ==
    /\ ds # <<>>
    /\ \A i \in 1..Len(ds) : ds[i] \in Range(DigitChars)
    /\ LET s == StripZeros(ds) IN
       \/ Len(s) < Len(max)
       \/ /\ Len(s) = Len(max)
          /\ \/ s = max
             \/ \E i \in 1..Len(s) :
                   /\ SubSeq(s, 1, i - 1) = SubSeq(max, 1, i - 1)
                   /\ DigitValue(s[i]) < DigitValue(max[i])

\* t is the standard base64 text of some bytes
IsBase64Text(t) ==
    /\ t # <<>>
    /\ Base64Decode(t) # NULL
    /\ Base64Encode(Base64Decode(t)[1]) = t

AllFiller(line, from, to) == \A k \in from..to : line[k] \in FillerChars

\* the line has the shape filler, Arc(<start>, <end>), filler, slice index,
\* filler, base64 digest, space (and then anything): a, b, c, d, e, f, g are
\* the positions of the last character of the first filler, of the start, of
\* the end, of the second filler, of the slice index, of the third filler and
\* of the digest
MatchesShape(line) ==
    LET n == Len(line) IN
    \E a \in 1..n :
        /\ AllFiller(line, 1, a)
        /\ tag(<<"A", "r", "c", "(">>, line, a + 1) # NULL
        /\ \E b \in (a + 5)..n :
            /\ NamesAtMost(SubSeq(line, a + 5, b), U32MaxDigits)
            /\ tag(<<",", " ">>, line, b + 1) # NULL
            /\ \E c \in (b + 3)..n :
                /\ NamesAtMost(SubSeq(line, b + 3, c), U32MaxDigits)
                /\ tag(<<")">>, line, c + 1) # NULL
                /\ \E d \in (c + 2)..n :
                    /\ AllFiller(line, c + 2, d)
                    /\ \E e \in (d + 1)..n :
                        /\ NamesAtMost(SubSeq(line, d + 1, e), U64MaxDigits)
                        /\ \E f \in (e + 1)..n :
                            /\ AllFiller(line, e + 1, f)
                            /\ \E g \in (f + 1)..(n - 1) :
                                /\ IsBase64Text(SubSeq(line, f + 1, g))
                                /\ line[g + 1] = " "

\* the records the two well-formed rows of DumpLines name: the full arc
\* Arc(0, 4294967295) has arc_end -1 as an i32
NamedRecords ==
    {[arc_start |-> 0, arc_end |-> -1, slice_index |-> 7, hash |-> <<1>>],
     [arc_start |-> 1, arc_end |-> 11, slice_index |-> 11, hash |-> <<1, 0>>]}

\* C19: load_hash_file fails only when the file cannot be read as text,
\* never because of what a line holds; it returns, in the order of the
\* file, one record for each line of the shape and none for any other line,
\* so a dump without a line of the shape gives no record and no error.
C19_TolerantParser ==
    /\ hpc = "error" => ~dump.utf8
    /\ (hpc \in {"lines", "done"}) =>
        LET taken == SubSeq(hlines, 1, line_no)
            matching == SelectSeq(taken, MatchesShape)
        IN  /\ Len(out) = Len(matching)
            /\ \A i \in 1..Len(out) :
                  /\ out[i] = ParseHashLine(matching[i])[1]
                  /\ out[i] \in NamedRecords
    /\ (dump.utf8 /\ hpc \notin {"read", "idle"}) =>
            Len(hlines) = Len(SelectSeq(dump.text, LAMBDA ch : ch = "\n"))

\* a dump of two lines, of which the parser skipped the first and took the
\* second
C19_Witness ==
    /\ hpc = "done"
    /\ Len(hlines) = 2
    /\ ~MatchesShape(hlines[1])
    /\ hlines[1] # <<>>
    /\ MatchesShape(hlines[2])
    /\ out = <<[arc_start |-> 0, arc_end |-> -1, slice_index |-> 7, hash |-> <<1>>]>>

\* ---------------------------------------------------------------------
\* Claims about cell initialisation
\* ---------------------------------------------------------------------

\* C16: against the conductor whose state dump is the (dump, summary) tuple,
\* is_cell_initialized of the provisioned cell of an installed and enabled
\* app returns false before any zome call and true once a zome call has
\* completed; whenever the cell exists it returns true exactly when the
\* source chain dumped holds an InitZomesComplete action; and after a call
\* that returned true every later call returns true.
C16_FollowsSourceChain ==
    conductor = "tuple" =>
        /\ \A i \in 1..Len(init_checks) :
              /\ (init_checks[i].app_state = "enabled" /\ init_checks[i].zome_calls = 0)
                    => init_checks[i].returned = "Ok(false)"
              /\ init_checks[i].zome_calls > 0 => init_checks[i].returned = "Ok(true)"
              /\ init_checks[i].app_state # "none" =>
                    /\ init_checks[i].returned \in {"Ok(true)", "Ok(false)"}
                    /\ init_checks[i].returned = "Ok(true)" <=>
                          "InitZomesComplete" \in Range(init_checks[i].source_chain)
        /\ \A i, j \in 1..Len(init_checks) :
              (i < j /\ init_checks[i].returned = "Ok(true)")
                    => init_checks[j].returned = "Ok(true)"

\* false before the first zome call, true after it, and true again after a
\* second zome call
C16_Witness ==
    /\ conductor = "tuple"
    /\ Len(init_checks) = 3
    /\ init_checks[1].app_state = "enabled"
    /\ init_checks[1].zome_calls = 0
    /\ init_checks[1].returned = "Ok(false)"
    /\ init_checks[2].zome_calls = 1
    /\ init_checks[2].returned = "Ok(true)"
    /\ init_checks[3].zome_calls = 2
    /\ init_checks[3].returned = "Ok(true)"

\* ---------------------------------------------------------------------
\* Claims about the bulk reads
\* ---------------------------------------------------------------------

\* the positions of the rows of the table the read selects
SelectedRows == {i \in 1..Len(op_table) : Selected(read_call, op_table[i])}

\* the positions of the selected rows whose type is none of the nine
UnknownTypeRows ==
    {i \in SelectedRows :
        op_table[i].typ # NULL /\ op_table[i].typ[1] \notin DhtOpTypes}

ReadReturned == rpc \in {"done", "failed"}

\* C14: a read that selects a row whose stored operation type is none of the
\* nine discriminants fails (get_all_dht_ops by the panic of its unwrap,
\* get_ops_by_action_hash by returning Err) with the error
\* "Unknown DhtOpType: <value>" for the value of the first such row, and
\* returns no rows; a read that returns rows returns every row it selected.
C14_UnknownTypeFailsRead ==
    ReadReturned =>
        /\ UnknownTypeRows # {} =>
              /\ read_result.tag \in {"Panic", "Err"}
              /\ read_result.rows = <<>>
              /\ read_result.error =
                    <<"Unknown DhtOpType: ", op_table[SetMin(UnknownTypeRows)].typ[1]>>
        /\ read_result.tag = "Ok" =>
              /\ Len(read_result.rows) = Cardinality(SelectedRows)
              /\ UnknownTypeRows = {}

\* get_all_dht_ops has failed on the second of two rows
C14_Witness ==
    /\ rpc = "failed"
    /\ read_call.fn = "get_all_dht_ops"
    /\ Len(op_table) = 2
    /\ UnknownTypeRows = {2}
    /\ read_result.error = <<"Unknown DhtOpType: ", "StoreElement">>

\* ---------------------------------------------------------------------
\* Reads of a store with a damaged blob
\* ---------------------------------------------------------------------

\* the action blob of the row of action h, or the blob of its entry, does not
\* decode
Undecodable(store, h) ==
    \/ <<store, "Action", h>> \in corrupt
    \/ /\ HasEntry(h)
       /\ <<store, h>> \in entry_rows
       /\ <<store, "Entry", h>> \in corrupt

\* the actions of the rows get_agent_chain reads from the shared-ledger store
DhtChainHashes ==
    {r.action_hash : r \in {o \in dht_op : /\ o.action_hash \in dht_action
                                          /\ AuthorOf(o.action_hash) = agent_pub_key
                                          /\ o.when_integrated # NULL}}

\* the actions of the rows get_agent_chain reads from the cache store
CacheChainHashes == {h \in cache_action : AuthorOf(h) = agent_pub_key}

\* the rows get_pending_ops reads
PendingOpRows ==
    {o \in dht_op : o.action_hash \in dht_action /\ o.when_integrated = NULL}

\* C15: a row read from the shared-ledger store or from the cache store whose
\* action blob or entry blob does not decode makes get_agent_chain return an
\* error and no chain, and makes get_pending_ops return an error and no list;
\* a result that is returned leaves out no row that was read.
C15_NoPartialResult ==
    /\ pc = "done" =>
          /\ \A h \in DhtChainHashes : ~Undecodable("dht", h)
          /\ \A h \in CacheChainHashes : ~Undecodable("cache", h)
          /\ {chain[i].hash : i \in 1..Len(chain)} = DhtChainHashes \cup CacheChainHashes
    /\ pc \in {"cache", "merge"} => \A h \in DhtChainHashes : ~Undecodable("dht", h)
    /\ pc = "merge" => \A h \in CacheChainHashes : ~Undecodable("cache", h)
    /\ pc = "error" => chain = <<>>
    /\ pending.tag = "Ok" =>
          /\ \A o \in PendingOpRows : ~Undecodable("dht", o.action_hash)
          /\ {pending.value[i].dht_op : i \in 1..Len(pending.value)} = PendingOpRows
    /\ pending.tag = "Err" => pending.value = <<>>

\* both reads have failed on a store that holds a damaged blob
C15_Witness ==
    /\ pc = "error"
    /\ pending.tag = "Err"
    /\ corrupt # {}
    /\ \E o \in PendingOpRows : Undecodable("dht", o.action_hash)
    /\ \E h \in DhtChainHashes \cup CacheChainHashes :
          Undecodable("dht", h) \/ Undecodable("cache", h)

\* ---------------------------------------------------------------------
\* Agent listing
\* ---------------------------------------------------------------------

\* the authors of an agent-validation marker action that has, in the
\* shared-ledger store, an operation with validation status valid and an
\* integration timestamp, or that exists in the cache store
MarkedAgents ==
    {a \in Agents :
        \/ \E o \in dht_op :
              /\ o.action_hash \in dht_action
              /\ TypOf(o.action_hash) = "AgentValidationPkg"
              /\ AuthorOf(o.action_hash) = a
              /\ o.validation_status = Some("Valid")
              /\ o.when_integrated # NULL
        \/ \E h \in cache_action :
              /\ TypOf(h) = "AgentValidationPkg"
              /\ AuthorOf(h) = a}

\* C20: list_discovered_agents returns each agent at most once, and returns
\* exactly the authors of an agent-validation marker action that has a valid
\* and integrated operation in the shared-ledger store or is in the cache store.
C20_ValidIntegratedOrCached ==
    apc = "done" =>
        /\ agents_out.tag = "Ok"
        /\ \A i, j \in 1..Len(agents_out.value) :
              i # j => agents_out.value[i] # agents_out.value[j]
        /\ {agents_out.value[i].agent : i \in 1..Len(agents_out.value)} = MarkedAgents

\* ---------------------------------------------------------------------
\* Pending operations
\* ---------------------------------------------------------------------

\* the Entry row the left join finds for action h in the shared-ledger store
StoredEntry(h) == HasEntry(h) /\ <<"dht", h>> \in entry_rows

\* C21: get_pending_ops returns exactly the operations of the shared-ledger
\* store that have no integration timestamp and whose action is stored, each
\* once; an operation whose action has no stored entry is returned as well,
\* without entry payload.
C21_PendingOpsExact ==
    pending.tag = "Ok" =>
        /\ \A i \in 1..Len(pending.value) :
              LET record == pending.value[i]
                  h == record.dht_op.action_hash
              IN  /\ record.dht_op.when_integrated = NULL
                  /\ h \in dht_action
                  /\ record.action = h
                  /\ record.entry = IF StoredEntry(h) THEN Some(h) ELSE NULL
        /\ {pending.value[i].dht_op : i \in 1..Len(pending.value)} = PendingOpRows
        /\ Len(pending.value) = Cardinality(PendingOpRows)

\* two pending operations have been returned, one of them of an action whose
\* entry is not stored
C21_Witness ==
    /\ pending.tag = "Ok"
    /\ Len(pending.value) = 2
    /\ \E i \in 1..2 :
          /\ HasEntry(pending.value[i].dht_op.action_hash)
          /\ ~StoredEntry(pending.value[i].dht_op.action_hash)
          /\ pending.value[i].entry = NULL

\* ---------------------------------------------------------------------
\* More properties of the chain reconstruction
\* ---------------------------------------------------------------------

\* the records of c whose hash is in hs, in the order of c
RECURSIVE Keep(_, _)
Keep(c, hs) ==
    IF c = <<>> THEN <<>>
    ELSE (IF Head(c).hash \in hs THEN <<Head(c)>> ELSE <<>>) \o Keep(Tail(c), hs)

\* the validation statuses the shared-ledger store holds for the integrated
\* operations of action h
LedgerStatuses(h) ==
    {o.validation_status[1] :
        o \in {r \in dht_op : r.action_hash = h /\ r.when_integrated # NULL}}

\* C22: in the chain returned by get_agent_chain, a record whose action hash
\* occurs in the base chain is a record of the base chain, with a validation
\* status read from the shared ledger, and the records of the base chain are
\* all there, none replaced by its cache copy; a record whose hash occurs only
\* in the cache has validation status valid.
C22_StatusOfMergedRecords ==
    pc = "done" =>
        /\ Keep(chain, HashesIn(base)) = base
        /\ \A i \in 1..Len(chain) :
              IF chain[i].hash \in HashesIn(base)
              THEN chain[i].validation_status \in LedgerStatuses(chain[i].hash)
              ELSE /\ chain[i].validation_status = "Valid"
                   /\ chain[i].hash \in cache_action

\* a chain has been returned that holds a rejected record of the shared
\* ledger whose action is in the cache too, and a record of the cache only
C22_Witness ==
    /\ pc = "done"
    /\ Len(chain) = 2
    /\ \E i, j \in 1..2 :
          /\ chain[i].validation_status = "Rejected"
          /\ chain[i].hash \in cache_action
          /\ chain[j].hash \notin HashesIn(base)
          /\ chain[j].validation_status = "Valid"

\* C23: when the shared-ledger store holds no integrated operation of an
\* action of the agent, get_agent_chain returns the cache records in the order
\* the cache query gave them (by sequence number), each action hash once.
C23_EmptyBaseChain ==
    (pc = "done" /\ DhtChainHashes = {}) =>
        /\ chain = cache_chain
        /\ \A i, j \in 1..Len(chain) : i # j => chain[i].hash # chain[j].hash

\* two cache records have been returned on an empty base chain, the
\* shared-ledger store holding operations that are not the agent's or not
\* integrated
C23_Witness ==
    /\ pc = "done"
    /\ DhtChainHashes = {}
    /\ dht_op # {}
    /\ base = <<>>
    /\ Len(cache_chain) = 2
    /\ chain = cache_chain

\* C26: merge_into_chain keeps a chain ordered: a chain whose sequence numbers
\* do not decrease has none that decrease after any record is merged; so the
\* loop of get_agent_chain, started on an ordered base chain, ends with an
\* ordered chain whatever the order of the cache records.
C26_MergeKeepsOrder ==
    [][/\ (IsMergeStep /\ NonDecreasing(chain)) => NonDecreasing(chain')
       /\ (pc = "merge" /\ pc' = "done" /\ NonDecreasing(base)) => NonDecreasing(chain')]_vars

\* two records given in decreasing order of sequence number have been merged
\* into an ordered chain of two
C26_Witness ==
    /\ pc = "done"
    /\ Len(base) = 2
    /\ NonDecreasing(base)
    /\ Len(cache_chain) = 2
    /\ cache_chain[1].seq > cache_chain[2].seq
    /\ Len(chain) = 4
    /\ NonDecreasing(chain)

\* C27: a call of merge_into_chain leaves the chain as it was or inserts the
\* record given at one place, every other record staying as and where it is;
\* so the action hashes of the chain the loop ends with are those of the base
\* chain and of the cache records together.
C27_MergeOnlyAdds ==
    [][/\ IsMergeStep =>
             \/ chain' = chain
             \/ \E p \in 1..Len(chain') :
                   /\ chain'[p] = cache_chain[idx + 1]
                   /\ RemoveAt(chain', p) = chain
       /\ (pc = "merge" /\ pc' = "done") =>
             HashesIn(chain') = HashesIn(base) \cup HashesIn(cache_chain)]_vars

\* of two records merged into a chain of two, one was in the chain and one
\* has been inserted
C27_Witness ==
    /\ pc = "done"
    /\ Len(base) = 2
    /\ Len(cache_chain) = 2
    /\ Len(chain) = 3
    /\ \E i \in 1..2 : cache_chain[i].hash \in HashesIn(base)
    /\ \E p \in 1..3 : chain[p] \in Range(cache_chain) /\ RemoveAt(chain, p) = base

\* C28: two records with different action hashes and different sequence
\* numbers, merged into a chain ordered by sequence number, give the same
\* chain in either order of merging.
C28_MergeOrderIndependent ==
    (/\ pc = "done"
     /\ Len(cache_chain) = 2
     /\ NonDecreasing(base)
     /\ cache_chain[1].hash # cache_chain[2].hash
     /\ cache_chain[1].seq # cache_chain[2].seq)
    => chain = merge_into_chain(merge_into_chain(base, cache_chain[2]), cache_chain[1])

\* two new records with different sequence numbers have been merged, the
\* greater first, into an ordered chain that has a record between them
C28_Witness ==
    /\ pc = "done"
    /\ Len(cache_chain) = 2
    /\ Len(base) = 2
    /\ NonDecreasing(base)
    /\ cache_chain[1].seq > cache_chain[2].seq
    /\ HashesIn(cache_chain) \cap HashesIn(base) = {}
    /\ \E i \in 1..2 : /\ base[i].seq >= cache_chain[2].seq
                       /\ base[i].seq <= cache_chain[1].seq
    /\ Len(chain) = 4

\* ---------------------------------------------------------------------
\* Operations of a time slice
\* ---------------------------------------------------------------------

\* get_ops_in_slice has returned or has ended the process
SliceReadEnded == spc \in {"done", "panicked"}

\* the rows that have no storage location or a hash that is not 39 bytes long
BadSizedOps ==
    {i \in 1..Len(slice_rows) :
        \/ slice_rows[i].storage_center_loc = NULL
        \/ Len(slice_rows[i].hash) # 39}

\* C25: when a row of the slice has no storage location or a hash of the
\* wrong length, get_ops_in_slice returns an error value to its caller, the
\* process goes on, and no list of operation hashes is returned.
C25_SchemaErrorsAreValues ==
    (SliceReadEnded /\ BadSizedOps # {}) =>
        /\ spc = "done"
        /\ slice_result.tag = "Err"
        /\ slice_result.value = <<>>

\* ---------------------------------------------------------------------
\* App client
\* ---------------------------------------------------------------------

\* the listed interfaces that are not dedicated to another app and allow the
\* origin
UsableInterfaces ==
    {k \in 1..Len(app_interfaces) :
        /\ app_interfaces[k].installed_app_id \in {NULL, Some(AppId)}
        /\ \/ app_interfaces[k].allowed_origins = AnyOrigin
           \/ Origin \in app_interfaces[k].allowed_origins.origins}

\* the place of a request among the requests made, 0 when it was not made
PlaceOf(call) ==
    IF \E k \in 1..Len(admin_calls) : admin_calls[k] = call
    THEN SetMin({k \in 1..Len(admin_calls) : admin_calls[k] = call})
    ELSE 0

\* C24: connect_app_client asks for the interfaces first; it attaches an
\* interface only when none of the listed ones is usable, and otherwise uses
\* the port of the first usable one; it has a token issued for the app before
\* it opens the connection, to the port chosen; when a step fails it returns an
\* error and no connection.
C24_DiscoverBeforeCreate ==
    /\ admin_calls # <<>> => admin_calls[1] = "list_app_interfaces"
    /\ PlaceOf("attach_app_interface") # 0 => UsableInterfaces = {}
    /\ attached # NULL => PlaceOf("attach_app_interface") # 0
    /\ (use_port # NULL /\ UsableInterfaces # {}) =>
          /\ use_port = Some(app_interfaces[SetMin(UsableInterfaces)].port)
          /\ attached = NULL
    /\ (use_port # NULL /\ UsableInterfaces = {}) => use_port = attached
    /\ PlaceOf("connect") # 0 =>
          /\ PlaceOf("issue_app_auth_token") # 0
          /\ PlaceOf("issue_app_auth_token") < PlaceOf("connect")
          /\ token_response = Some([installed_app_id |-> AppId])
    /\ cpc = "done" =>
          /\ app_client.tag = "Ok"
          /\ app_client.value.port = use_port[1]
          /\ app_client.value.token = token_response[1]
    /\ cpc = "error" =>
          /\ app_client.tag = "Err"
          /\ app_client.value = <<>>
          /\ admin_calls[Len(admin_calls)] = app_client.error[Len(app_client.error)]
             \/ admin_calls[Len(admin_calls)] = "connect"
    /\ app_client.tag = "Ok" => cpc = "done"

\* the app client is connected to the second of two listed interfaces, the
\* first being dedicated to another app
C24_Witness ==
    /\ cpc = "done"
    /\ Len(app_interfaces) = 2
    /\ UsableInterfaces = {2}
    /\ app_interfaces[1].installed_app_id = Some("app2")
    /\ is_allowed(app_interfaces[1].allowed_origins, Origin)
    /\ app_client.value.port = app_interfaces[2].port
    /\ admin_calls = <<"list_app_interfaces", "issue_app_auth_token", "connect">>

\* ---------------------------------------------------------------------
\* the explorer's navigation

\* the step made in the operation menu ended in a failure of the selected
\* operation, or of the menu itself
OperationFailed ==
    /\ epc = "run"
    /\ <<epc, op_outcome>>' # <<epc, op_outcome>>
    /\ op_outcome'[2] \in {"Err", "Panic"}

\* C29: an operation that fails inside the operation menu never ends the
\* explorer session: the stores are opened again for the same DNA of the
\* same app and the menu is shown again; ":back" returns to DNA selection;
\* ":exit" in the operation menu or in app selection ends the explorer
\* successfully; a failure to open one of the three stores ends the explorer
\* with that error
C29_Navigation ==
    [][ /\ OperationFailed =>
              /\ epc' = "open"
              /\ <<use_app, use_dna, error>>' = <<use_app, use_dna, error>>
        /\ (epc = "open" /\ epc' = "run") =>
              /\ opens' = opens + Len(StoreKinds)
              /\ <<use_app, use_dna>>' = <<use_app, use_dna>>
        /\ (epc = "run" /\ op_outcome' # op_outcome /\ op_outcome'[1] = "Back") =>
              /\ epc' = "select_dna"
              /\ use_app' = use_app
        /\ (epc = "run" /\ op_outcome' # op_outcome /\ op_outcome'[1] = "Exit") =>
              /\ epc' = "done"
              /\ error' = ""
        /\ (epc = "select_app" /\ epc' = "done") => error' = ""
        /\ (epc = "open" /\ epc' # "run") =>
              /\ epc' = "error"
              /\ error' = "Failed to open the database"
      ]_vars

\* ---------------------------------------------------------------------
\* the search for the admin port

\* the addresses test_admin_port tries for the given ports, in order
AddrsOf(given) ==
    [k \in 1..(Len(given) * Len(Addrs)) |->
        SocketAddr(Addrs[((k - 1) % Len(Addrs)) + 1],
                   given[((k - 1) \div Len(Addrs)) + 1])]

\* the addresses were tested in the given order, and none before the last
\* one was accepted
TestedInOrder ==
    /\ Len(probed) <= Len(AddrsOf(ports))
    /\ \A k \in 1..Len(probed) :
        /\ probed[k].addr = AddrsOf(ports)[k]
        /\ k < Len(probed) => ~probed[k].accepted

\* the two halves of the join have not both finished
Joining == jpc = "join" /\ ~(reqh = "done" /\ recvh = "done")

\* what holds in every state of the search
ProbeSafe ==
    /\ TestedInOrder
       \* the request's completion is signalled to a receive loop still running
    /\ (jpc = "join" /\ req_result # NULL /\ recvh = "loop") => oneshot_ready(req_done)
       \* a receive error is signalled to a request half still waiting
    /\ (jpc = "join" /\ recv_ok = Some(FALSE) /\ reqh = "select") =>
          oneshot_ready(recv_done)
       \* an accepted address had its request answered and no receive error
    /\ (probed # <<>> /\ probed[Len(probed)].accepted) =>
          /\ req_result = Some("Ok")
          /\ "Err" \notin Range(received)
          /\ admin_addr = Ok(Some(probed[Len(probed)].addr))
    /\ admin_addr.tag = "Ok" =>
          /\ jpc = "done"
          /\ IF admin_addr.value = NULL
             THEN /\ probed = [k \in 1..Len(AddrsOf(ports)) |->
                                 [addr |-> AddrsOf(ports)[k], accepted |-> FALSE]]
             ELSE /\ probed # <<>>
                  /\ probed[Len(probed)] =
                        [addr |-> admin_addr.value[1], accepted |-> TRUE]
    /\ jpc = "done" => admin_addr.tag = "Ok"

\* C30: in test_admin_port the request half and the receive-loop half always
\* both finish, whichever of them completes or fails first; an address is
\* accepted only if the ListApps request returned successfully and the
\* receive loop saw no error; discover_admin_addr returns the address of the
\* first port, in the given order, that is accepted, and None when none is
C30_ProbeNeverHangs ==
    /\ []ProbeSafe
    /\ Joining ~> (jpc = "join" /\ reqh = "done" /\ recvh = "done")

\* the second port is accepted on its second address, after the receive loop
\* got a message before the request was answered
C30_Witness ==
    /\ jpc = "done"
    /\ Len(ports) = 2
    /\ ports[1] # ports[2]
    /\ admin_addr = Ok(Some(SocketAddr("ipv4", ports[2])))
    /\ Len(probed) = 4
    /\ received = <<"Ok">>
    /\ req_done = "sent"
    /\ recv_done = "canceled"

====
